---- MODULE Spec2Model ----
(***************************************************************************)
(* Expense Manager: the two backends of the REST API.                      *)
(*                                                                         *)
(*   edge variant  supabase/functions/server/index.tsx, a Hono app over a   *)
(*                 key-value store (kv_store.tsx) and Supabase Auth         *)
(*   SQL variant   the Express server over MySQL and the schema it is       *)
(*                 shipped with                                             *)
(*                                                                         *)
(* A deployment runs one of the two; `variant` says which.  Every route    *)
(* handler is an operator from the request and the store to the HTTP       *)
(* status and the store it leaves, and one action applies it to a request   *)
(* drawn from small sets.  Timestamps (createdAt, updatedAt), names and     *)
(* attachments are left out: no handler branches on them.  Dates are kept   *)
(* as the number of calendar months before the current month.              *)
(***************************************************************************)
EXTENDS Integers, FiniteSets, Sequences, TLC

VARIABLES
    variant,    \* "edge" or "sql": the backend this deployment runs
    kv,         \* edge: the key-value store, key <<prefix, id>> -> JSON value
    eAuth,      \* edge: Supabase Auth holds the users 1..eAuth
    eNextId,    \* edge: number of ids crypto.randomUUID() has handed out
    db,         \* SQL: the tables, each a map id -> row
    autoInc,    \* SQL: per table, the last AUTO_INCREMENT id handed out
    issued,     \* SQL: the payloads of the JWTs signed so far
    resp,       \* the last request served: [op, token, status]
    proc        \* what runs beside the request handlers: the position of the
                \* admin script, the requests in flight, the client's state

edgeVars == <<kv, eAuth, eNextId>>
sqlVars == <<db, autoInc, issued>>
vars == <<variant, kv, eAuth, eNextId, db, autoInc, issued, resp, proc>>

----------------------------------------------------------------------------
(* Bounds *)

MaxUsers == 2       \* users that sign up
MaxIds == 2         \* records created (each gets a fresh id)
MaxSessions == 3    \* tokens the client is handed by signIn / signUp

Null == 0           \* JS undefined / null, SQL NULL (ids start at 1)
NoToken == 0        \* no Authorization header
BadToken == -1      \* a token that fails verification (forged or expired)

Roles == {"admin", "user"}
Months == {0, 1}    \* 0: dated in the current month, 1: in the month before
Kinds == {"expense", "income"}

UserIds == 1..MaxUsers
Ids == 1..MaxIds

----------------------------------------------------------------------------
(* Amounts *)

(* A number with up to three decimals, whole + milli/1000 with milli in    *)
(* 0..999: a JavaScript number or the value of a DECIMAL column.  The       *)
(* binary rounding of a JavaScript sum is not modelled.                     *)
Num(whole, milli) == [whole |-> whole, milli |-> milli]

(* a string of digits that reads as the number n: "42.50" *)
Str(n) == [str |-> n]

NaN == [nan |-> TRUE]

Zero == Num(0, 0)

IsNum(v) == DOMAIN v = {"whole", "milli"}

Plus(a, b) ==
    LET m == a.milli + b.milli IN
    Num(a.whole + b.whole + (IF m >= 1000 THEN 1 ELSE 0),
        IF m >= 1000 THEN m - 1000 ELSE m)

Minus(a, b) ==
    LET m == a.milli - b.milli IN
    Num(a.whole - b.whole - (IF m < 0 THEN 1 ELSE 0),
        IF m < 0 THEN m + 1000 ELSE m)

Positive(a) == a.whole > 0 \/ (a.whole = 0 /\ a.milli > 0)

(* x || 0: NaN, null and undefined count as 0 *)
OrZero(v) == IF IsNum(v) THEN v ELSE Zero

(* the amounts a form sends: 1 and 2.50 *)
Amounts == {Num(1, 0), Num(2, 500)}

RECURSIVE SumOver(_, _)
(* rows.reduce((sum, r) => sum + r.amount, 0): f maps each row's key to its amount *)
SumOver(S, f) ==
    IF S = {} THEN Zero
    ELSE LET x == CHOOSE y \in S : TRUE IN Plus(f[x], SumOver(S \ {x}, f))

(* parseFloat(v): a number stays, a string of digits is read, the rest is NaN *)
ParseFloat(v) ==
    IF IsNum(v) THEN v
    ELSE IF DOMAIN v = {"str"} THEN v.str
    ELSE NaN

(* the largest value of a DECIMAL(10, 2) column: 99999999.99 *)
DecimalMax == Num(99999999, 990)

(* ER_WARN_DATA_OUT_OF_RANGE *)
OutOfRange == [error |-> "Out of range value for column 'amount'"]

(* A value written to a DECIMAL(10, 2) column: rounded half up to two      *)
(* decimals.  Past the range of the column the INSERT fails under a strict  *)
(* sql_mode and stores the largest value otherwise.                         *)
ToDecimal(v, strict) ==
    LET n == ParseFloat(v)
        cents == (n.milli + 5) \div 10
        rounded == IF cents = 100 THEN Num(n.whole + 1, 0)
                   ELSE Num(n.whole, cents * 10) IN
    IF Positive(Minus(rounded, DecimalMax))
    THEN IF strict THEN OutOfRange ELSE DecimalMax
    ELSE rounded

(* mysql2 hands a DECIMAL over as a string *)
DecimalText(d) == Str(d)

(* Number(v) *)
Number(v) == ParseFloat(v)

(* { ...existing, ...updates }: the fields of updates win *)
Spread(existing, updates) ==
    [f \in (DOMAIN existing) \cup (DOMAIN updates) |->
        IF f \in DOMAIN updates THEN updates[f] ELSE existing[f]]

----------------------------------------------------------------------------
(* Query parameters *)

(* A query parameter is the sequence of its characters; <<>> is a parameter *)
(* that is absent or empty.                                                 *)
Digit == [c \in {"0", "1", "2", "3", "4", "5", "6", "7", "8", "9"} |->
            CASE c = "0" -> 0 [] c = "1" -> 1 [] c = "2" -> 2 [] c = "3" -> 3
              [] c = "4" -> 4 [] c = "5" -> 5 [] c = "6" -> 6 [] c = "7" -> 7
              [] c = "8" -> 8 [] c = "9" -> 9]

RECURSIVE LeadingDigits(_)
(* the longest prefix of s made of digits *)
LeadingDigits(s) ==
    IF s = <<>> \/ Head(s) \notin DOMAIN Digit THEN <<>>
    ELSE <<Head(s)>> \o LeadingDigits(Tail(s))

RECURSIVE DigitsValue(_)
DigitsValue(s) ==
    IF s = <<>> THEN 0
    ELSE 10 * DigitsValue(SubSeq(s, 1, Len(s) - 1)) + Digit[s[Len(s)]]

(* parseInt(s): the number its leading digits spell; without one, NaN,      *)
(* which is -1 here: every comparison the handlers make with it is false,   *)
(* as it is for a negative count.  Signs and blanks are not modelled.       *)
ParseInt(s) ==
    IF LeadingDigits(s) = <<>> THEN -1 ELSE DigitsValue(LeadingDigits(s))

----------------------------------------------------------------------------
(* The key-value store (kv_store.tsx) *)

Missing == [missing |-> TRUE]       \* what kv.get returns for an absent key

kvGet(key) == IF key \in DOMAIN kv THEN kv[key] ELSE Missing

kvSet(key, value) ==
    [k \in (DOMAIN kv) \cup {key} |-> IF k = key THEN value ELSE kv[k]]

kvDel(key) == [k \in (DOMAIN kv) \ {key} |-> kv[k]]

(* the keys under a prefix; the values are kv[k] *)
kvGetByPrefix(prefix) == {k \in DOMAIN kv : k[1] = prefix}

(* a sub-map of the store: a JSON array of the values under these keys *)
Rows(keys) == [k \in keys |-> kv[k]]

----------------------------------------------------------------------------
(* Edge variant: middleware and helpers *)

(* requireAuth: 0 when next() runs (the token's user is attached), else    *)
(* the status it answers with.  supabase.auth.getUser succeeds exactly for *)
(* the access token of an Auth user; the token of user u is u.             *)
(* requireAuth trusting any token that is present *)
requireAuthUnverified(tok) == IF tok = NoToken THEN 401 ELSE 0

requireAuth(tok) ==
    IF tok = NoToken THEN 401
    ELSE IF tok \notin 1..eAuth THEN 401
    ELSE 0

(* userProfile?.role *)
RoleOf(profile) == IF profile = Missing THEN "undefined" ELSE profile.role

Answer(status) == [status |-> status, kv |-> kv]

Written(store) == [status |-> 200, kv |-> store]

----------------------------------------------------------------------------
(* Edge variant: users *)

(* POST /auth/signup.  created: whether supabase.auth.admin.createUser      *)
(* succeeded (it fails, for one, on an e-mail Auth already holds).  The new *)
(* Auth user gets the next id; role is "" when the body has none.           *)
EdgeSignup(created, role) ==
    IF ~created THEN [status |-> 400, kv |-> kv, auth |-> eAuth]
    ELSE LET id == eAuth + 1 IN
         [status |-> 200,
          kv |-> kvSet(<<"user", id>>,
                       [id |-> id, role |-> IF role = "" THEN "user" ELSE role]),
          auth |-> id]

(* GET /users/me: the body is the caller's stored profile *)
EdgeGetMe(tok) ==
    IF requireAuth(tok) # 0 THEN [status |-> requireAuth(tok), body |-> Missing]
    ELSE [status |-> 200, body |-> kvGet(<<"user", tok>>)]

(* GET /users (admin only) *)
EdgeGetUsers(tok) ==
    IF requireAuth(tok) # 0 THEN [status |-> requireAuth(tok), body |-> <<>>]
    ELSE LET currentUserProfile == kvGet(<<"user", tok>>) IN
         IF RoleOf(currentUserProfile) # "admin"
         THEN [status |-> 403, body |-> <<>>]
         ELSE [status |-> 200, body |-> Rows(kvGetByPrefix("user"))]

(* PUT /users/:id without the admin check *)
EdgePutUserUnchecked(tok, userId, updates) ==
    IF requireAuth(tok) # 0 THEN Answer(requireAuth(tok))
    ELSE LET existingUser == kvGet(<<"user", userId>>) IN
         IF existingUser = Missing THEN Answer(404)
         ELSE Written(kvSet(<<"user", userId>>, Spread(existingUser, updates)))

(* PUT /users/:id (admin only) *)
EdgePutUser(tok, userId, updates) ==
    IF requireAuth(tok) # 0 THEN Answer(requireAuth(tok))
    ELSE LET currentUserProfile == kvGet(<<"user", tok>>)
             existingUser == kvGet(<<"user", userId>>) IN
         IF RoleOf(currentUserProfile) # "admin" THEN Answer(403)
         ELSE IF existingUser = Missing THEN Answer(404)
         ELSE Written(kvSet(<<"user", userId>>, Spread(existingUser, updates)))

----------------------------------------------------------------------------
(* Edge variant: categories and projects *)

EdgeGetCategories(tok) ==
    IF requireAuth(tok) # 0 THEN [status |-> requireAuth(tok), body |-> <<>>]
    ELSE [status |-> 200, body |-> Rows(kvGetByPrefix("category"))]

EdgePostCategory(tok, type) ==
    IF requireAuth(tok) # 0 THEN Answer(requireAuth(tok))
    ELSE LET id == eNextId + 1 IN
         Written(kvSet(<<"category", id>>,
                       [id |-> id, type |-> type, createdBy |-> tok]))

EdgePutCategory(tok, id, updates) ==
    IF requireAuth(tok) # 0 THEN Answer(requireAuth(tok))
    ELSE LET existing == kvGet(<<"category", id>>) IN
         IF existing = Missing THEN Answer(404)
         ELSE Written(kvSet(<<"category", id>>, Spread(existing, updates)))

(* a delete that takes the records of the category along *)
EdgeDeleteCategoryCascade(tok, id) ==
    IF requireAuth(tok) # 0 THEN Answer(requireAuth(tok))
    ELSE Written([k \in {j \in DOMAIN kv :
                            /\ j # <<"category", id>>
                            /\ "categoryId" \in DOMAIN kv[j] => kv[j].categoryId # id}
                    |-> kv[k]])

EdgeDeleteCategory(tok, id) ==
    IF requireAuth(tok) # 0 THEN Answer(requireAuth(tok))
    ELSE Written(kvDel(<<"category", id>>))

EdgeGetSubcategories(tok) ==
    IF requireAuth(tok) # 0 THEN [status |-> requireAuth(tok), body |-> <<>>]
    ELSE [status |-> 200, body |-> Rows(kvGetByPrefix("subcategory"))]

EdgePostSubcategory(tok, categoryId) ==
    IF requireAuth(tok) # 0 THEN Answer(requireAuth(tok))
    ELSE LET id == eNextId + 1 IN
         Written(kvSet(<<"subcategory", id>>,
                       [id |-> id, categoryId |-> categoryId, createdBy |-> tok]))

EdgePutSubcategory(tok, id, updates) ==
    IF requireAuth(tok) # 0 THEN Answer(requireAuth(tok))
    ELSE LET existing == kvGet(<<"subcategory", id>>) IN
         IF existing = Missing THEN Answer(404)
         ELSE Written(kvSet(<<"subcategory", id>>, Spread(existing, updates)))

EdgeDeleteSubcategory(tok, id) ==
    IF requireAuth(tok) # 0 THEN Answer(requireAuth(tok))
    ELSE Written(kvDel(<<"subcategory", id>>))

EdgeGetProjects(tok) ==
    IF requireAuth(tok) # 0 THEN [status |-> requireAuth(tok), body |-> <<>>]
    ELSE [status |-> 200, body |-> Rows(kvGetByPrefix("project"))]

EdgePostProject(tok, status) ==
    IF requireAuth(tok) # 0 THEN Answer(requireAuth(tok))
    ELSE LET id == eNextId + 1 IN
         Written(kvSet(<<"project", id>>,
                       [id |-> id,
                        status |-> IF status = "" THEN "active" ELSE status,
                        createdBy |-> tok]))

EdgePutProject(tok, id, updates) ==
    IF requireAuth(tok) # 0 THEN Answer(requireAuth(tok))
    ELSE LET existing == kvGet(<<"project", id>>) IN
         IF existing = Missing THEN Answer(404)
         ELSE Written(kvSet(<<"project", id>>, Spread(existing, updates)))

EdgeDeleteProject(tok, id) ==
    IF requireAuth(tok) # 0 THEN Answer(requireAuth(tok))
    ELSE Written(kvDel(<<"project", id>>))

----------------------------------------------------------------------------
(* Edge variant: expenses and incomes *)

(* a request body of POST /expenses and POST /incomes *)
TxBody(amount, month, categoryId, projectId) ==
    [amount |-> amount, month |-> month,
     categoryId |-> categoryId, projectId |-> projectId]

(* GET /expenses without the role filter *)
EdgeGetExpensesUnfiltered(tok) ==
    IF requireAuth(tok) # 0 THEN [status |-> requireAuth(tok), body |-> <<>>]
    ELSE [status |-> 200, body |-> Rows(kvGetByPrefix("expense"))]

EdgeGetExpenses(tok) ==
    IF requireAuth(tok) # 0 THEN [status |-> requireAuth(tok), body |-> <<>>]
    ELSE LET userProfile == kvGet(<<"user", tok>>)
             expenses == kvGetByPrefix("expense") IN
         [status |-> 200,
          body |-> Rows(IF RoleOf(userProfile) # "admin"
                        THEN {k \in expenses : kv[k].userId = tok}
                        ELSE expenses)]

EdgePostExpense(tok, body) ==
    IF requireAuth(tok) # 0 THEN Answer(requireAuth(tok))
    ELSE LET id == eNextId + 1 IN
         Written(kvSet(<<"expense", id>>,
                       [id |-> id, userId |-> tok, month |-> body.month,
                        categoryId |-> body.categoryId,
                        projectId |-> body.projectId,
                        amount |-> ParseFloat(body.amount)]))

(* PUT /expenses/:id without the ownership check *)
EdgePutExpenseUnchecked(tok, id, updates) ==
    IF requireAuth(tok) # 0 THEN Answer(requireAuth(tok))
    ELSE LET existing == kvGet(<<"expense", id>>) IN
         IF existing = Missing THEN Answer(404)
         ELSE Written(kvSet(<<"expense", id>>, Spread(existing, updates)))

EdgePutExpense(tok, id, updates) ==
    IF requireAuth(tok) # 0 THEN Answer(requireAuth(tok))
    ELSE LET existing == kvGet(<<"expense", id>>)
             userProfile == kvGet(<<"user", tok>>) IN
         IF existing = Missing THEN Answer(404)
         ELSE IF RoleOf(userProfile) # "admin" /\ existing.userId # tok
         THEN Answer(403)
         ELSE Written(kvSet(<<"expense", id>>, Spread(existing, updates)))

EdgeDeleteExpense(tok, id) ==
    IF requireAuth(tok) # 0 THEN Answer(requireAuth(tok))
    ELSE LET existing == kvGet(<<"expense", id>>)
             userProfile == kvGet(<<"user", tok>>) IN
         IF existing = Missing THEN Answer(404)
         ELSE IF RoleOf(userProfile) # "admin" /\ existing.userId # tok
         THEN Answer(403)
         ELSE Written(kvDel(<<"expense", id>>))

EdgeGetIncomes(tok) ==
    IF requireAuth(tok) # 0 THEN [status |-> requireAuth(tok), body |-> <<>>]
    ELSE LET userProfile == kvGet(<<"user", tok>>)
             incomes == kvGetByPrefix("income") IN
         [status |-> 200,
          body |-> Rows(IF RoleOf(userProfile) # "admin"
                        THEN {k \in incomes : kv[k].userId = tok}
                        ELSE incomes)]

EdgePostIncome(tok, body) ==
    IF requireAuth(tok) # 0 THEN Answer(requireAuth(tok))
    ELSE LET id == eNextId + 1 IN
         Written(kvSet(<<"income", id>>,
                       [id |-> id, userId |-> tok, month |-> body.month,
                        categoryId |-> body.categoryId,
                        projectId |-> body.projectId,
                        amount |-> ParseFloat(body.amount)]))

EdgePutIncome(tok, id, updates) ==
    IF requireAuth(tok) # 0 THEN Answer(requireAuth(tok))
    ELSE LET existing == kvGet(<<"income", id>>)
             userProfile == kvGet(<<"user", tok>>) IN
         IF existing = Missing THEN Answer(404)
         ELSE IF RoleOf(userProfile) # "admin" /\ existing.userId # tok
         THEN Answer(403)
         ELSE Written(kvSet(<<"income", id>>, Spread(existing, updates)))

EdgeDeleteIncome(tok, id) ==
    IF requireAuth(tok) # 0 THEN Answer(requireAuth(tok))
    ELSE LET existing == kvGet(<<"income", id>>)
             userProfile == kvGet(<<"user", tok>>) IN
         IF existing = Missing THEN Answer(404)
         ELSE IF RoleOf(userProfile) # "admin" /\ existing.userId # tok
         THEN Answer(403)
         ELSE Written(kvDel(<<"income", id>>))

----------------------------------------------------------------------------
(* Edge variant: analytics *)

(* reduce((sum, t) => sum + (t.amount || 0), 0) over the rows under keys *)
EdgeTotal(keys) == SumOver(keys, [k \in keys |-> OrZero(kv[k].amount)])

(* the rows dated in the calendar month `back` months before the current one *)
EdgeInMonth(keys, back) == {k \in keys : kv[k].month = back}

(* the dashboard without the filter on the current month *)
EdgeDashboardUnscoped(tok) ==
    IF requireAuth(tok) # 0 THEN [status |-> requireAuth(tok), body |-> <<>>]
    ELSE LET userProfile == kvGet(<<"user", tok>>)
             allExpenses == kvGetByPrefix("expense")
             allIncomes == kvGetByPrefix("income")
             expenses == IF RoleOf(userProfile) # "admin"
                         THEN {k \in allExpenses : kv[k].userId = tok}
                         ELSE allExpenses
             incomes == IF RoleOf(userProfile) # "admin"
                        THEN {k \in allIncomes : kv[k].userId = tok}
                        ELSE allIncomes
             totalExpenses == EdgeTotal(expenses)
             totalIncomes == EdgeTotal(incomes)
             monthlyExpenseTotal == EdgeTotal(expenses)
             monthlyIncomeTotal == EdgeTotal(incomes) IN
         [status |-> 200,
          body |-> [totalExpenses |-> totalExpenses,
                    totalIncomes |-> totalIncomes,
                    balance |-> Minus(totalIncomes, totalExpenses),
                    monthlyExpenses |-> monthlyExpenseTotal,
                    monthlyIncomes |-> monthlyIncomeTotal,
                    monthlyBalance |-> Minus(monthlyIncomeTotal, monthlyExpenseTotal),
                    expenseCount |-> Cardinality(expenses),
                    incomeCount |-> Cardinality(incomes)]]

EdgeDashboard(tok) ==
    IF requireAuth(tok) # 0 THEN [status |-> requireAuth(tok), body |-> <<>>]
    ELSE LET userProfile == kvGet(<<"user", tok>>)
             allExpenses == kvGetByPrefix("expense")
             allIncomes == kvGetByPrefix("income")
             expenses == IF RoleOf(userProfile) # "admin"
                         THEN {k \in allExpenses : kv[k].userId = tok}
                         ELSE allExpenses
             incomes == IF RoleOf(userProfile) # "admin"
                        THEN {k \in allIncomes : kv[k].userId = tok}
                        ELSE allIncomes
             totalExpenses == EdgeTotal(expenses)
             totalIncomes == EdgeTotal(incomes)
             monthlyExpenseTotal == EdgeTotal(EdgeInMonth(expenses, 0))
             monthlyIncomeTotal == EdgeTotal(EdgeInMonth(incomes, 0)) IN
         [status |-> 200,
          body |-> [totalExpenses |-> totalExpenses,
                    totalIncomes |-> totalIncomes,
                    balance |-> Minus(totalIncomes, totalExpenses),
                    monthlyExpenses |-> monthlyExpenseTotal,
                    monthlyIncomes |-> monthlyIncomeTotal,
                    monthlyBalance |-> Minus(monthlyIncomeTotal, monthlyExpenseTotal),
                    expenseCount |-> Cardinality(expenses),
                    incomeCount |-> Cardinality(incomes)]]

(* type is the query parameter, "" when absent *)
EdgeCategoryBreakdown(tok, type) ==
    IF requireAuth(tok) # 0 THEN [status |-> requireAuth(tok), body |-> <<>>]
    ELSE LET userProfile == kvGet(<<"user", tok>>)
             ty == IF type = "" THEN "expense" ELSE type
             all == IF ty = "expense" THEN kvGetByPrefix("expense")
                    ELSE kvGetByPrefix("income")
             transactions == IF RoleOf(userProfile) # "admin"
                             THEN {k \in all : kv[k].userId = tok}
                             ELSE all
             categories == {c \in kvGetByPrefix("category") : kv[c].type = ty}
             of(c) == {k \in transactions : kv[k].categoryId = kv[c].id}
             listed == {c \in categories : Positive(EdgeTotal(of(c)))} IN
         [status |-> 200,
          body |-> [c \in listed |->
                      [categoryId |-> kv[c].id,
                       total |-> EdgeTotal(of(c)),
                       count |-> Cardinality(of(c))]]]

(* the loop running for (let i = months; i >= 1; i--) *)
EdgeMonthlyTrendsFromOne(tok, query) ==
    IF requireAuth(tok) # 0 THEN [status |-> requireAuth(tok), body |-> <<>>]
    ELSE LET months == ParseInt(IF query = <<>> THEN <<"1", "2">> ELSE query)
             userProfile == kvGet(<<"user", tok>>)
             allExpenses == kvGetByPrefix("expense")
             allIncomes == kvGetByPrefix("income")
             expenses == IF RoleOf(userProfile) # "admin"
                         THEN {k \in allExpenses : kv[k].userId = tok}
                         ELSE allExpenses
             incomes == IF RoleOf(userProfile) # "admin"
                        THEN {k \in allIncomes : kv[k].userId = tok}
                        ELSE allIncomes
             bucket(i) ==
                LET expenseTotal == EdgeTotal(EdgeInMonth(expenses, i))
                    incomeTotal == EdgeTotal(EdgeInMonth(incomes, i)) IN
                [month |-> i, expenses |-> expenseTotal, incomes |-> incomeTotal,
                 balance |-> Minus(incomeTotal, expenseTotal)] IN
         [status |-> 200, body |-> [n \in 1..months |-> bucket(months - n + 1)]]

(* query is the months parameter; the body is the array of buckets, filled *)
(* by for (let i = months - 1; i >= 0; i--)                                *)
EdgeMonthlyTrends(tok, query) ==
    IF requireAuth(tok) # 0 THEN [status |-> requireAuth(tok), body |-> <<>>]
    ELSE LET months == ParseInt(IF query = <<>> THEN <<"1", "2">> ELSE query)
             userProfile == kvGet(<<"user", tok>>)
             allExpenses == kvGetByPrefix("expense")
             allIncomes == kvGetByPrefix("income")
             expenses == IF RoleOf(userProfile) # "admin"
                         THEN {k \in allExpenses : kv[k].userId = tok}
                         ELSE allExpenses
             incomes == IF RoleOf(userProfile) # "admin"
                        THEN {k \in allIncomes : kv[k].userId = tok}
                        ELSE allIncomes
             bucket(i) ==
                LET expenseTotal == EdgeTotal(EdgeInMonth(expenses, i))
                    incomeTotal == EdgeTotal(EdgeInMonth(incomes, i)) IN
                [month |-> i, expenses |-> expenseTotal, incomes |-> incomeTotal,
                 balance |-> Minus(incomeTotal, expenseTotal)] IN
         [status |-> 200, body |-> [n \in 1..months |-> bucket(months - n)]]

EdgeProjectBreakdown(tok) ==
    IF requireAuth(tok) # 0 THEN [status |-> requireAuth(tok), body |-> <<>>]
    ELSE LET userProfile == kvGet(<<"user", tok>>)
             allExpenses == kvGetByPrefix("expense")
             allIncomes == kvGetByPrefix("income")
             expenses == IF RoleOf(userProfile) # "admin"
                         THEN {k \in allExpenses : kv[k].userId = tok}
                         ELSE allExpenses
             incomes == IF RoleOf(userProfile) # "admin"
                        THEN {k \in allIncomes : kv[k].userId = tok}
                        ELSE allIncomes
             projects == kvGetByPrefix("project")
             projectExpenses(p) == {k \in expenses : kv[k].projectId = kv[p].id}
             projectIncomes(p) == {k \in incomes : kv[k].projectId = kv[p].id} IN
         [status |-> 200,
          body |-> [p \in projects |->
                      [projectId |-> kv[p].id,
                       totalExpenses |-> EdgeTotal(projectExpenses(p)),
                       totalIncomes |-> EdgeTotal(projectIncomes(p)),
                       balance |-> Minus(EdgeTotal(projectIncomes(p)),
                                         EdgeTotal(projectExpenses(p))),
                       expenseCount |-> Cardinality(projectExpenses(p)),
                       incomeCount |-> Cardinality(projectIncomes(p))]]]

----------------------------------------------------------------------------
(* Edge variant: one action per route *)

(* token: "valid", "none", "bad", or "" on a route without middleware *)
Served(op, token, status) ==
    /\ resp' = [op |-> op, token |-> token, status |-> status]
    /\ UNCHANGED proc

(* ids a client can name: a record's id, or one that is not there *)
EIds == 1..MaxIds

(* categoryId / projectId a client sends: none, or one picked from the list *)
ERefs(prefix) == {Null} \cup {k[2] : k \in kvGetByPrefix(prefix)}

ETxBodies ==
    {TxBody(a, m, c, p) : a \in Amounts, m \in Months,
                          c \in ERefs("category"), p \in ERefs("project")}

ETxUpdates ==
    {[amount |-> a] : a \in Amounts} \cup {[month |-> m] : m \in Months}
    \cup {[userId |-> u] : u \in 1..eAuth}
    \cup {[categoryId |-> c] : c \in ERefs("category")}
    \cup {[projectId |-> p] : p \in ERefs("project")}

EUserUpdates == {[role |-> r] : r \in Roles}
ECategoryUpdates == {[type |-> t] : t \in Kinds}
EProjectUpdates == {[status |-> s] : s \in {"active", "completed"}}

(* the access tokens of the Auth users *)
EValid == 1..eAuth

EdgeReads(op, r) ==
    Served(op, "valid", r.status) /\ UNCHANGED <<variant, kv, eAuth, eNextId, sqlVars>>

EdgeUpdates(op, r) ==
    /\ kv' = r.kv
    /\ Served(op, "valid", r.status)
    /\ UNCHANGED <<variant, eAuth, eNextId, sqlVars>>

EdgeCreates(op, r) ==
    /\ kv' = r.kv
    /\ eNextId' = IF r.status = 200 THEN eNextId + 1 ELSE eNextId
    /\ Served(op, "valid", r.status)
    /\ UNCHANGED <<variant, eAuth, sqlVars>>

Signup ==
    /\ variant = "edge" /\ eAuth < MaxUsers
    /\ \E created \in BOOLEAN, role \in {""} \cup Roles :
         LET r == EdgeSignup(created, role) IN
         /\ kv' = r.kv /\ eAuth' = r.auth
         /\ Served("POST /auth/signup", "", r.status)
         /\ UNCHANGED <<variant, eNextId, sqlVars>>

GetUsers ==
    variant = "edge" /\ \E tok \in EValid : EdgeReads("GET /users", EdgeGetUsers(tok))

PutUser ==
    /\ variant = "edge"
    /\ \E tok \in EValid, id \in UserIds, u \in EUserUpdates :
         EdgeUpdates("PUT /users/:id", EdgePutUser(tok, id, u))

PostCategory ==
    /\ variant = "edge" /\ eNextId < MaxIds
    /\ \E tok \in EValid, t \in Kinds :
         EdgeCreates("POST /categories", EdgePostCategory(tok, t))

PutCategory ==
    /\ variant = "edge"
    /\ \E tok \in EValid, id \in EIds, u \in ECategoryUpdates :
         EdgeUpdates("PUT /categories/:id", EdgePutCategory(tok, id, u))

DeleteCategory ==
    /\ variant = "edge"
    /\ \E tok \in EValid, id \in EIds :
         EdgeUpdates("DELETE /categories/:id", EdgeDeleteCategory(tok, id))

GetSubcategories ==
    variant = "edge" /\ \E tok \in EValid :
        EdgeReads("GET /subcategories", EdgeGetSubcategories(tok))

PostSubcategory ==
    /\ variant = "edge" /\ eNextId < MaxIds
    /\ \E tok \in EValid, c \in ERefs("category") :
         EdgeCreates("POST /subcategories", EdgePostSubcategory(tok, c))

PutSubcategory ==
    /\ variant = "edge"
    /\ \E tok \in EValid, id \in EIds, c \in ERefs("category") :
         EdgeUpdates("PUT /subcategories/:id",
                     EdgePutSubcategory(tok, id, [categoryId |-> c]))

DeleteSubcategory ==
    /\ variant = "edge"
    /\ \E tok \in EValid, id \in EIds :
         EdgeUpdates("DELETE /subcategories/:id", EdgeDeleteSubcategory(tok, id))

PostProject ==
    /\ variant = "edge" /\ eNextId < MaxIds
    /\ \E tok \in EValid, st \in {"", "completed"} :
         EdgeCreates("POST /projects", EdgePostProject(tok, st))

PutProject ==
    /\ variant = "edge"
    /\ \E tok \in EValid, id \in EIds, u \in EProjectUpdates :
         EdgeUpdates("PUT /projects/:id", EdgePutProject(tok, id, u))

DeleteProject ==
    /\ variant = "edge"
    /\ \E tok \in EValid, id \in EIds :
         EdgeUpdates("DELETE /projects/:id", EdgeDeleteProject(tok, id))

GetExpenses ==
    variant = "edge" /\ \E tok \in EValid : EdgeReads("GET /expenses", EdgeGetExpenses(tok))

PostExpense ==
    /\ variant = "edge" /\ eNextId < MaxIds
    /\ \E tok \in EValid, b \in ETxBodies :
         EdgeCreates("POST /expenses", EdgePostExpense(tok, b))

PutExpense ==
    /\ variant = "edge"
    /\ \E tok \in EValid, id \in EIds, u \in ETxUpdates :
         EdgeUpdates("PUT /expenses/:id", EdgePutExpense(tok, id, u))

DeleteExpense ==
    /\ variant = "edge"
    /\ \E tok \in EValid, id \in EIds :
         EdgeUpdates("DELETE /expenses/:id", EdgeDeleteExpense(tok, id))

GetIncomes ==
    variant = "edge" /\ \E tok \in EValid : EdgeReads("GET /incomes", EdgeGetIncomes(tok))

PostIncome ==
    /\ variant = "edge" /\ eNextId < MaxIds
    /\ \E tok \in EValid, b \in ETxBodies :
         EdgeCreates("POST /incomes", EdgePostIncome(tok, b))

PutIncome ==
    /\ variant = "edge"
    /\ \E tok \in EValid, id \in EIds, u \in ETxUpdates :
         EdgeUpdates("PUT /incomes/:id", EdgePutIncome(tok, id, u))

DeleteIncome ==
    /\ variant = "edge"
    /\ \E tok \in EValid, id \in EIds :
         EdgeUpdates("DELETE /incomes/:id", EdgeDeleteIncome(tok, id))

GetDashboard ==
    variant = "edge" /\ \E tok \in EValid :
        EdgeReads("GET /analytics/dashboard", EdgeDashboard(tok))

GetCategoryBreakdown ==
    /\ variant = "edge"
    /\ \E tok \in EValid, t \in {""} \cup Kinds :
         EdgeReads("GET /analytics/category-breakdown", EdgeCategoryBreakdown(tok, t))

GetMonthlyTrends ==
    /\ variant = "edge"
    /\ \E tok \in EValid, q \in {<<>>, <<"2">>} :
         EdgeReads("GET /analytics/monthly-trends", EdgeMonthlyTrends(tok, q))

GetProjectBreakdown ==
    variant = "edge" /\ \E tok \in EValid :
        EdgeReads("GET /analytics/project-breakdown", EdgeProjectBreakdown(tok))

(* The routes behind requireAuth.  The middleware answers a request        *)
(* without a valid token before the handler reads its parameters or body:  *)
(* EdgeRoute serves such a request with the parameters of one request.     *)
EdgeRoutes ==
    {"GET /users/me", "GET /users", "PUT /users/:id",
     "GET /categories", "POST /categories", "PUT /categories/:id",
     "DELETE /categories/:id",
     "GET /subcategories", "POST /subcategories", "PUT /subcategories/:id",
     "DELETE /subcategories/:id",
     "GET /projects", "POST /projects", "PUT /projects/:id", "DELETE /projects/:id",
     "GET /expenses", "POST /expenses", "PUT /expenses/:id", "DELETE /expenses/:id",
     "GET /incomes", "POST /incomes", "PUT /incomes/:id", "DELETE /incomes/:id",
     "GET /analytics/dashboard", "GET /analytics/category-breakdown",
     "GET /analytics/monthly-trends", "GET /analytics/project-breakdown"}

EdgeRead(r) == [status |-> r.status, kv |-> kv]

EdgeRoute(route, tok) ==
    LET body == TxBody(Num(1, 0), 0, Null, Null)
        upd == [amount |-> Num(2, 500)] IN
    CASE route = "GET /users/me" -> EdgeRead(EdgeGetMe(tok))
      [] route = "GET /users" -> EdgeRead(EdgeGetUsers(tok))
      [] route = "PUT /users/:id" -> EdgePutUser(tok, 1, [role |-> "admin"])
      [] route = "GET /categories" -> EdgeRead(EdgeGetCategories(tok))
      [] route = "POST /categories" -> EdgePostCategory(tok, "expense")
      [] route = "PUT /categories/:id" -> EdgePutCategory(tok, 1, [type |-> "income"])
      [] route = "DELETE /categories/:id" -> EdgeDeleteCategory(tok, 1)
      [] route = "GET /subcategories" -> EdgeRead(EdgeGetSubcategories(tok))
      [] route = "POST /subcategories" -> EdgePostSubcategory(tok, 1)
      [] route = "PUT /subcategories/:id" ->
            EdgePutSubcategory(tok, 1, [categoryId |-> Null])
      [] route = "DELETE /subcategories/:id" -> EdgeDeleteSubcategory(tok, 1)
      [] route = "GET /projects" -> EdgeRead(EdgeGetProjects(tok))
      [] route = "POST /projects" -> EdgePostProject(tok, "")
      [] route = "PUT /projects/:id" -> EdgePutProject(tok, 1, [status |-> "completed"])
      [] route = "DELETE /projects/:id" -> EdgeDeleteProject(tok, 1)
      [] route = "GET /expenses" -> EdgeRead(EdgeGetExpenses(tok))
      [] route = "POST /expenses" -> EdgePostExpense(tok, body)
      [] route = "PUT /expenses/:id" -> EdgePutExpense(tok, 1, upd)
      [] route = "DELETE /expenses/:id" -> EdgeDeleteExpense(tok, 1)
      [] route = "GET /incomes" -> EdgeRead(EdgeGetIncomes(tok))
      [] route = "POST /incomes" -> EdgePostIncome(tok, body)
      [] route = "PUT /incomes/:id" -> EdgePutIncome(tok, 1, upd)
      [] route = "DELETE /incomes/:id" -> EdgeDeleteIncome(tok, 1)
      [] route = "GET /analytics/dashboard" -> EdgeRead(EdgeDashboard(tok))
      [] route = "GET /analytics/category-breakdown" ->
            EdgeRead(EdgeCategoryBreakdown(tok, ""))
      [] route = "GET /analytics/monthly-trends" -> EdgeRead(EdgeMonthlyTrends(tok, <<>>))
      [] route = "GET /analytics/project-breakdown" -> EdgeRead(EdgeProjectBreakdown(tok))

(* a request with no token, or with one Supabase Auth does not accept *)
Unauthorized ==
    /\ variant = "edge"
    /\ \E tok \in {NoToken, BadToken}, route \in EdgeRoutes :
         LET r == EdgeRoute(route, tok) IN
         /\ kv' = r.kv
         /\ Served("requireAuth", IF tok = NoToken THEN "none" ELSE "bad", r.status)
         /\ UNCHANGED <<variant, eAuth, eNextId, sqlVars>>

EdgeNext ==
    \/ Signup \/ Unauthorized \/ GetUsers \/ PutUser
    \/ PostCategory \/ PutCategory \/ DeleteCategory
    \/ GetSubcategories \/ PostSubcategory \/ PutSubcategory \/ DeleteSubcategory
    \/ PostProject \/ PutProject \/ DeleteProject
    \/ GetExpenses \/ PostExpense \/ PutExpense \/ DeleteExpense
    \/ GetIncomes \/ PostIncome \/ PutIncome \/ DeleteIncome
    \/ GetDashboard \/ GetCategoryBreakdown \/ GetMonthlyTrends
    \/ GetProjectBreakdown

----------------------------------------------------------------------------
(* SQL variant: the tables and the middleware *)

(* The users table is modelled with the password column the server reads   *)
(* and writes.  A JWT is its payload {id, role} (the e-mail in it is never  *)
(* read); jwt.verify accepts exactly the tokens this server signed.         *)
Tables == {"users", "categories", "subcategories", "projects", "expenses", "incomes"}

NoJwt == [kind |-> "none"]          \* no Authorization header
BadJwt == [kind |-> "bad"]          \* fails jwt.verify: forged or expired
Jwt(id, role) == [kind |-> "jwt", id |-> id, role |-> role]

(* authenticateToken: 0 when next() runs with req.user = the payload *)
authenticateToken(tok) ==
    IF tok = NoJwt THEN 401
    ELSE IF tok \notin issued THEN 403
    ELSE 0

(* bcrypt.hash / bcrypt.compare *)
Hash(password) == <<"bcrypt", password>>
Compare(password, hash) == hash = Hash(password)

SqlAnswer(status) ==
    [status |-> status, db |-> db, autoInc |-> autoInc, issued |-> issued]

SqlWritten(newDb) ==
    [status |-> 200, db |-> newDb, autoInc |-> autoInc, issued |-> issued]

(* INSERT INTO t: the row gets the next AUTO_INCREMENT id *)
SqlInserted(t, row) ==
    LET id == autoInc[t] + 1 IN
    [status |-> 200,
     db |-> [db EXCEPT ![t] = [i \in (DOMAIN db[t]) \cup {id} |->
                                  IF i = id THEN row ELSE db[t][i]]],
     autoInc |-> [autoInc EXCEPT ![t] = id],
     issued |-> issued]

(* UPDATE t SET <the columns of set> WHERE id = ?: no row, nothing changes *)
SqlUpdate(t, id, set) ==
    [db EXCEPT ![t] = [i \in DOMAIN db[t] |->
                          IF i = id THEN Spread(db[t][i], set) ELSE db[t][i]]]

(* DELETE FROM t WHERE id = ? *)
SqlDelete(t, id) ==
    [db EXCEPT ![t] = [i \in (DOMAIN db[t]) \ {id} |-> db[t][i]]]

(* FOREIGN KEY (col) REFERENCES t(id): NULL or an existing row *)
FkOk(t, ref) == ref = Null \/ ref \in DOMAIN db[t]

(* the references left as they are *)
SetNullNot(table, col, id) == table

(* ON DELETE SET NULL of the expenses and incomes that reference the row *)
SetNull(table, col, id) ==
    [i \in DOMAIN table |->
        IF table[i][col] = id THEN [table[i] EXCEPT ![col] = Null] ELSE table[i]]

----------------------------------------------------------------------------
(* SQL variant: authentication and users *)

SqlRegister(name, email, password, role) ==
    LET existing == {i \in DOMAIN db["users"] : db["users"][i].email = email}
        r == IF role = "" THEN "user" ELSE role
        ins == SqlInserted("users", [name |-> name, email |-> email,
                                     password |-> Hash(password), role |-> r]) IN
    IF existing # {}
    THEN SqlAnswer(400) @@ [error |-> "Email already exists"]
    ELSE [ins EXCEPT !.issued = issued \cup {Jwt(autoInc["users"] + 1, r)}]
         @@ [error |-> ""]

SqlLogin(email, password) ==
    LET users == {i \in DOMAIN db["users"] : db["users"][i].email = email} IN
    IF users = {} THEN SqlAnswer(400) @@ [error |-> "User not found"]
    ELSE LET id == CHOOSE i \in users : TRUE
             user == db["users"][id] IN
         IF ~Compare(password, user.password)
         THEN SqlAnswer(400) @@ [error |-> "Invalid password"]
         ELSE [SqlAnswer(200) EXCEPT !.issued = issued \cup {Jwt(id, user.role)}]
              @@ [error |-> ""]

(* GET /api/users *)
SqlGetUsers(tok) ==
    IF authenticateToken(tok) # 0
    THEN [status |-> authenticateToken(tok), body |-> <<>>]
    ELSE IF tok.role # "admin" THEN [status |-> 403, body |-> <<>>]
    ELSE [status |-> 200,
          body |-> [i \in DOMAIN db["users"] |->
                      [id |-> i, name |-> db["users"][i].name,
                       email |-> db["users"][i].email,
                       role |-> db["users"][i].role]]]

(* PUT /api/users/profile.  email is UNIQUE: an UPDATE to another user's   *)
(* e-mail fails with ER_DUP_ENTRY, which the handler's catch answers.      *)
SqlPutProfile(tok, name, email) ==
    IF authenticateToken(tok) # 0 THEN SqlAnswer(authenticateToken(tok))
    ELSE IF name = "" \/ email = "" THEN SqlAnswer(400)
    ELSE IF \E i \in DOMAIN db["users"] :
                i # tok.id /\ db["users"][i].email = email
    THEN SqlAnswer(500)
    ELSE SqlWritten(SqlUpdate("users", tok.id,
                        [name |-> name, email |-> email]))

----------------------------------------------------------------------------
(* SQL variant: categories and projects *)

SqlPostCategory(tok, name, type) ==
    IF authenticateToken(tok) # 0 THEN SqlAnswer(authenticateToken(tok))
    ELSE SqlInserted("categories", [name |-> name, type |-> type])

SqlPutCategory(tok, id, name, type) ==
    IF authenticateToken(tok) # 0 THEN SqlAnswer(authenticateToken(tok))
    ELSE SqlWritten(SqlUpdate("categories", id,
                        [name |-> name, type |-> type]))

(* ON DELETE CASCADE: the rows of table whose column col references id go *)
Cascade(table, col, id) ==
    [i \in {j \in DOMAIN table : table[j][col] # id} |-> table[i]]

(* the expenses after the subcategories `ids` went with their category:   *)
(* the SET NULL of expenses.subcategory_id acts on cascaded deletes too    *)
SetNullEach(table, col, ids) ==
    [i \in DOMAIN table |->
        IF table[i][col] \in ids THEN [table[i] EXCEPT ![col] = Null] ELSE table[i]]

(* DELETE FROM categories WHERE id = ?: the expenses and incomes of the     *)
(* category keep NULL (SET NULL), its subcategories are deleted (CASCADE)   *)
SqlDeleteCategory(tok, id) ==
    IF authenticateToken(tok) # 0 THEN SqlAnswer(authenticateToken(tok))
    ELSE IF id \notin DOMAIN db["categories"] THEN SqlWritten(db)
    ELSE LET gone == {j \in DOMAIN db["subcategories"] :
                         db["subcategories"][j].category_id = id} IN
         SqlWritten([SqlDelete("categories", id) EXCEPT
                        !["subcategories"] = Cascade(db["subcategories"], "category_id", id),
                        !["expenses"] = SetNullEach(
                            SetNull(db["expenses"], "category_id", id),
                            "subcategory_id", gone),
                        !["incomes"] = SetNull(db["incomes"], "category_id", id)])

(* GET /api/subcategories *)
SqlGetSubcategories(tok) ==
    IF authenticateToken(tok) # 0
    THEN [status |-> authenticateToken(tok), body |-> <<>>]
    ELSE [status |-> 200,
          body |-> [i \in DOMAIN db["subcategories"] |->
                      [id |-> i, name |-> db["subcategories"][i].name,
                       categoryId |-> db["subcategories"][i].category_id]]]

SqlPostSubcategory(tok, name, categoryId) ==
    IF authenticateToken(tok) # 0 THEN SqlAnswer(authenticateToken(tok))
    ELSE IF ~FkOk("categories", categoryId) THEN SqlAnswer(500)
    ELSE SqlInserted("subcategories", [name |-> name, category_id |-> categoryId])

SqlPutSubcategory(tok, id, name, categoryId) ==
    IF authenticateToken(tok) # 0 THEN SqlAnswer(authenticateToken(tok))
    ELSE IF id \notin DOMAIN db["subcategories"] THEN SqlWritten(db)
    ELSE IF ~FkOk("categories", categoryId) THEN SqlAnswer(500)
    ELSE SqlWritten(SqlUpdate("subcategories", id,
                        [name |-> name, category_id |-> categoryId]))

(* DELETE FROM subcategories WHERE id = ?: the expenses of the subcategory *)
(* keep NULL (SET NULL)                                                     *)
SqlDeleteSubcategory(tok, id) ==
    IF authenticateToken(tok) # 0 THEN SqlAnswer(authenticateToken(tok))
    ELSE IF id \notin DOMAIN db["subcategories"] THEN SqlWritten(db)
    ELSE SqlWritten([SqlDelete("subcategories", id) EXCEPT
                        !["expenses"] = SetNull(db["expenses"], "subcategory_id", id)])

RECURSIVE Orderings(_)
(* every sequence that lists each member of `ids` once *)
Orderings(ids) ==
    IF ids = {} THEN {<<>>}
    ELSE UNION {{<<i>> \o rest : rest \in Orderings(ids \ {i})} : i \in ids}

(* ORDER BY <col> DESC over the rows `ids` of `table`, where col is a date *)
(* kept as months back: the most recent row first. The statement names no  *)
(* further sort key, so the server may return rows of one date in any      *)
(* order, and in a different one for each statement it runs: the result is *)
(* the set of the orders a statement may see.                              *)
OrderByDesc(table, col, ids) ==
    {s \in Orderings(ids) :
        \A a, b \in 1..Len(s) : a < b => table[s[a]][col] <= table[s[b]][col]}

(* the letters of the names this model stores *)
Spell(text) ==
    CASE text = "Food" -> <<"F", "o", "o", "d">>
      [] text = "Fruit" -> <<"F", "r", "u", "i", "t">>
      [] text = "Site" -> <<"S", "i", "t", "e">>
      [] text = "App" -> <<"A", "p", "p">>
      [] text = "Salary" -> <<"S", "a", "l", "a", "r", "y">>
      [] OTHER -> <<>>

(* the default collation compares without regard to case *)
Lower(c) ==
    CASE c = "F" -> "f" [] c = "S" -> "s" [] c = "A" -> "a" [] OTHER -> c

(* text LIKE '%search%' for a search of one letter or more: the search     *)
(* occurs in the text                                                      *)
Like(text, search) ==
    /\ search # <<>>
    /\ \E at \in 0..Len(Spell(text)) :
          /\ at + Len(search) <= Len(Spell(text))
          /\ \A k \in 1..Len(search) : Lower(Spell(text)[at + k]) = Lower(search[k])

(* WHERE 1=1 [AND UserID = ?] [AND (ProjectName LIKE ? OR Description LIKE ?)]: *)
(* rows of this model carry no Description (NULL)                           *)
SqlProjectsMatching(tok, search) ==
    {i \in DOMAIN db["projects"] :
        /\ tok.role # "admin" => db["projects"][i].UserID = tok.id
        /\ search = <<>> \/ Like(db["projects"][i].ProjectName, search)}

(* the orders in which the page query of GET /api/projects may see the rows *)
SqlProjectOrders(tok, search) ==
    OrderByDesc(db["projects"], "ProjectStartDate", SqlProjectsMatching(tok, search))

(* GET /api/projects?page&limit&search, the page query having seen the     *)
(* rows in `order`: res.json({ projects: rows, total, page, limit })        *)
SqlGetProjects(tok, page, limit, search, order) ==
    IF authenticateToken(tok) # 0
    THEN [status |-> authenticateToken(tok), body |-> <<>>, total |-> 0]
    ELSE LET offset == (page - 1) * limit
             rows == SubSeq(order, offset + 1,
                            IF offset + limit < Len(order) THEN offset + limit
                            ELSE Len(order)) IN
         [status |-> 200,
          body |-> [n \in 1..Len(rows) |->
                      [ProjectID |-> rows[n],
                       ProjectName |-> db["projects"][rows[n]].ProjectName,
                       ProjectStartDate |-> db["projects"][rows[n]].ProjectStartDate,
                       UserID |-> db["projects"][rows[n]].UserID]],
          total |-> Cardinality(SqlProjectsMatching(tok, search))]

(* ProjectStartDate || new Date(): the start date in months back, a request *)
(* without one being dated today. Requests carry a start date, as the       *)
(* client's form does.                                                       *)
SqlPostProject(tok, ProjectName, ProjectStartDate) ==
    IF authenticateToken(tok) # 0 THEN SqlAnswer(authenticateToken(tok))
    ELSE SqlInserted("projects",
            [ProjectName |-> ProjectName,
             ProjectStartDate |-> IF ProjectStartDate # Null THEN ProjectStartDate ELSE 0,
             UserID |-> tok.id])

SqlPutProject(tok, id, ProjectName, ProjectStartDate) ==
    IF authenticateToken(tok) # 0 THEN SqlAnswer(authenticateToken(tok))
    ELSE IF id \notin DOMAIN db["projects"] THEN SqlAnswer(404)
    ELSE IF tok.role # "admin" /\ db["projects"][id].UserID # tok.id
    THEN SqlAnswer(403)
    ELSE SqlWritten(SqlUpdate("projects", id,
                        [ProjectName |-> ProjectName,
                         ProjectStartDate |-> ProjectStartDate]))

SqlDeleteProject(tok, id) ==
    IF authenticateToken(tok) # 0 THEN SqlAnswer(authenticateToken(tok))
    ELSE IF id \notin DOMAIN db["projects"] THEN SqlAnswer(404)
    ELSE IF tok.role # "admin" /\ db["projects"][id].UserID # tok.id
    THEN SqlAnswer(403)
    ELSE SqlWritten([SqlDelete("projects", id) EXCEPT
                        !["expenses"] = SetNull(db["expenses"], "project_id", id),
                        !["incomes"] = SetNull(db["incomes"], "project_id", id)])

----------------------------------------------------------------------------
(* SQL variant: expenses and incomes *)

(* LIMIT limit OFFSET offset *)
LimitOffset(seq, limit, offset) ==
    SubSeq(seq, offset + 1, IF offset + limit < Len(seq) THEN offset + limit ELSE Len(seq))

(* r.<col>: undefined, which JSON leaves out and this model writes as     *)
(* Null, where the table has no such column                                *)
Column(row, col) == IF col \in DOMAIN row THEN row[col] ELSE Null

(* subcategoryId || null of a request body *)
SubcategoryOf(body) ==
    IF "subcategoryId" \in DOMAIN body THEN body.subcategoryId ELSE Null

(* the rows with the amount as the driver returns it *)
FormattedRaw(table, seq) ==
    [n \in 1..Len(seq) |->
        [id |-> seq[n], month |-> table[seq[n]].month,
         amount |-> DecimalText(table[seq[n]].amount),
         categoryId |-> table[seq[n]].category_id,
         subcategoryId |-> Column(table[seq[n]], "subcategory_id"),
         projectId |-> table[seq[n]].project_id]]

(* rows.map(r => ({id, date, amount: Number(r.amount), categoryId, projectId})) *)
Formatted(table, seq) ==
    [n \in 1..Len(seq) |->
        [id |-> seq[n], month |-> table[seq[n]].month,
         amount |-> Number(DecimalText(table[seq[n]].amount)),
         categoryId |-> table[seq[n]].category_id,
         subcategoryId |-> Column(table[seq[n]], "subcategory_id"),
         projectId |-> table[seq[n]].project_id]]

(* c.name of the LEFT JOIN categories c ON e.category_id = c.id; the NULL  *)
(* of a row without a category, which no LIKE matches, is a name without   *)
(* letters                                                                  *)
SqlCategoryName(row) ==
    IF row.category_id \in DOMAIN db["categories"]
    THEN db["categories"][row.category_id].name ELSE ""

(* WHERE 1=1 [AND (e.remarks LIKE ? OR c.name LIKE ?)]: the user filter is *)
(* commented out in the source, so there is no condition on user_id; rows  *)
(* of this model carry no remarks (NULL)                                    *)
SqlExpensesMatching(search) ==
    {i \in DOMAIN db["expenses"] :
        search = <<>> \/ Like(SqlCategoryName(db["expenses"][i]), search)}

(* the orders in which the page query of GET /api/expenses may see the rows *)
SqlExpenseOrders(search) ==
    OrderByDesc(db["expenses"], "month", SqlExpensesMatching(search))

(* GET /api/expenses?page&limit&search, the page query having seen the     *)
(* rows in `order`; the count query applies the same WHERE                  *)
SqlGetExpenses(tok, page, limit, search, order) ==
    IF authenticateToken(tok) # 0
    THEN [status |-> authenticateToken(tok), body |-> <<>>, total |-> 0]
    ELSE LET offset == (page - 1) * limit
             rows == LimitOffset(order, limit, offset) IN
         [status |-> 200, body |-> Formatted(db["expenses"], rows),
          total |-> Cardinality(SqlExpensesMatching(search))]

(* strict: whether the server's sql_mode is a strict one *)
SqlPostExpense(tok, body, strict) ==
    IF authenticateToken(tok) # 0 THEN SqlAnswer(authenticateToken(tok))
    ELSE IF \/ ~FkOk("categories", body.categoryId)
            \/ ~FkOk("subcategories", SubcategoryOf(body))
            \/ ~FkOk("projects", body.projectId)
            \/ ToDecimal(body.amount, strict) = OutOfRange
    THEN SqlAnswer(500)
    ELSE SqlInserted("expenses",
            [month |-> body.month, amount |-> ToDecimal(body.amount, strict),
             category_id |-> body.categoryId,
             subcategory_id |-> SubcategoryOf(body),
             project_id |-> body.projectId,
             user_id |-> tok.id])

SqlPutExpense(tok, id, body, strict) ==
    IF authenticateToken(tok) # 0 THEN SqlAnswer(authenticateToken(tok))
    ELSE IF id \notin DOMAIN db["expenses"] THEN SqlWritten(db)
    ELSE IF \/ ~FkOk("categories", body.categoryId)
            \/ ~FkOk("subcategories", SubcategoryOf(body))
            \/ ~FkOk("projects", body.projectId)
            \/ ToDecimal(body.amount, strict) = OutOfRange
    THEN SqlAnswer(500)
    ELSE SqlWritten(SqlUpdate("expenses", id,
            [month |-> body.month, amount |-> ToDecimal(body.amount, strict),
             category_id |-> body.categoryId,
             subcategory_id |-> SubcategoryOf(body),
             project_id |-> body.projectId]))

SqlDeleteExpense(tok, id) ==
    IF authenticateToken(tok) # 0 THEN SqlAnswer(authenticateToken(tok))
    ELSE SqlWritten(SqlDelete("expenses", id))

(* the orders in which the page query of GET /api/incomes may see the rows *)
SqlIncomeOrders == OrderByDesc(db["incomes"], "month", DOMAIN db["incomes"])

SqlGetIncomes(tok, page, limit, order) ==
    IF authenticateToken(tok) # 0
    THEN [status |-> authenticateToken(tok), body |-> <<>>, total |-> 0]
    ELSE LET offset == (page - 1) * limit
             rows == LimitOffset(order, limit, offset) IN
         [status |-> 200, body |-> Formatted(db["incomes"], rows),
          total |-> Cardinality(DOMAIN db["incomes"])]

(* the columns of the incomes table in the schema *)
IncomeColumns == {"id", "date", "amount", "remarks", "category_id", "project_id", "user_id"}

(* INSERT INTO incomes (date, amount, remarks, category_id, subcategory_id, *)
(* project_id, user_id): a column the table does not have is               *)
(* ER_BAD_FIELD_ERROR, which the handler's catch answers                    *)
SqlPostIncome(tok, body) ==
    IF authenticateToken(tok) # 0 THEN SqlAnswer(authenticateToken(tok))
    ELSE IF "subcategory_id" \notin IncomeColumns THEN SqlAnswer(500)
    ELSE IF ~FkOk("categories", body.categoryId) \/ ~FkOk("projects", body.projectId)
    THEN SqlAnswer(500)
    ELSE SqlInserted("incomes",
            [month |-> body.month, amount |-> ToDecimal(body.amount, TRUE),
             category_id |-> body.categoryId, project_id |-> body.projectId,
             user_id |-> tok.id])

(* UPDATE incomes SET ..., subcategory_id=?, ... WHERE id=? *)
SqlPutIncome(tok, id, body) ==
    IF authenticateToken(tok) # 0 THEN SqlAnswer(authenticateToken(tok))
    ELSE IF "subcategory_id" \notin IncomeColumns THEN SqlAnswer(500)
    ELSE IF id \notin DOMAIN db["incomes"] THEN SqlWritten(db)
    ELSE IF ~FkOk("categories", body.categoryId) \/ ~FkOk("projects", body.projectId)
    THEN SqlAnswer(500)
    ELSE SqlWritten(SqlUpdate("incomes", id,
            [month |-> body.month, amount |-> ToDecimal(body.amount, TRUE),
             category_id |-> body.categoryId, project_id |-> body.projectId]))

SqlDeleteIncome(tok, id) ==
    IF authenticateToken(tok) # 0 THEN SqlAnswer(authenticateToken(tok))
    ELSE SqlWritten(SqlDelete("incomes", id))

----------------------------------------------------------------------------
(* SQL variant: analytics.  None of the four queries has a WHERE on        *)
(* user_id and none of the handlers reads req.user.                        *)

(* SELECT SUM(amount) over the rows `ids` of `table`, as mysql2 returns it *)
SqlSum(table, ids) == DecimalText(SumOver(ids, [i \in ids |-> table[i].amount]))

(* rows.reduce((sum, item) => sum + Number(item.amount), 0) *)
SqlTotal(table, ids) ==
    SumOver(ids, [i \in ids |-> Number(DecimalText(table[i].amount))])

SqlDashboardStats(tok) ==
    IF authenticateToken(tok) # 0
    THEN [status |-> authenticateToken(tok), body |-> <<>>]
    ELSE LET expenseRows == DOMAIN db["expenses"]
             incomeRows == DOMAIN db["incomes"]
             totalExpenses == SqlTotal(db["expenses"], expenseRows)
             totalIncomes == SqlTotal(db["incomes"], incomeRows)
             monthlyExpenses == SqlTotal(db["expenses"],
                                   {i \in expenseRows : db["expenses"][i].month = 0})
             monthlyIncomes == SqlTotal(db["incomes"],
                                   {i \in incomeRows : db["incomes"][i].month = 0}) IN
         [status |-> 200,
          body |-> [totalExpenses |-> totalExpenses,
                    totalIncomes |-> totalIncomes,
                    balance |-> Minus(totalIncomes, totalExpenses),
                    monthlyBalance |-> Minus(monthlyIncomes, monthlyExpenses),
                    expenseCount |-> Cardinality(expenseRows),
                    incomeCount |-> Cardinality(incomeRows)]]

(* SELECT c.name, SUM(t.amount) FROM t JOIN categories c GROUP BY c.name *)
SqlCategoryBreakdown(tok, type) ==
    IF authenticateToken(tok) # 0
    THEN [status |-> authenticateToken(tok), body |-> <<>>]
    ELSE LET table == IF type = "income" THEN db["incomes"] ELSE db["expenses"]
             joined == {i \in DOMAIN table : table[i].category_id \in DOMAIN db["categories"]}
             nameOf(i) == db["categories"][table[i].category_id].name
             names == {nameOf(i) : i \in joined} IN
         [status |-> 200,
          body |-> [n \in names |->
                      [categoryName |-> n,
                       total |-> SqlSum(table, {i \in joined : nameOf(i) = n})]]]

(* One query per table: the rows of the last six months grouped by        *)
(* calendar month and ordered by year and month; then, for each of the six *)
(* months ending at the current one, the first group with that month's     *)
(* short name.  Two months have one name when they are 12 months apart.    *)
SqlTrendOf(table, back) ==
    LET window == {i \in DOMAIN table : table[i].month <= 6}
        groups == {table[i].month : i \in window}
        named == {g \in groups : g % 12 = back % 12} IN
    IF named = {} THEN Zero
    ELSE LET found == CHOOSE g \in named : \A h \in named : g >= h IN
         Number(SqlSum(table, {i \in window : table[i].month = found}))

SqlMonthlyTrends(tok) ==
    IF authenticateToken(tok) # 0
    THEN [status |-> authenticateToken(tok), body |-> <<>>]
    ELSE [status |-> 200,
          body |-> [n \in 1..6 |->
                      [month |-> 6 - n,
                       expenses |-> SqlTrendOf(db["expenses"], 6 - n),
                       incomes |-> SqlTrendOf(db["incomes"], 6 - n)]]]

(* SELECT p.ProjectName, SUM(e.amount) FROM expenses e JOIN projects p     *)
(* GROUP BY p.ProjectName                                                  *)
SqlProjectBreakdown(tok) ==
    IF authenticateToken(tok) # 0
    THEN [status |-> authenticateToken(tok), body |-> <<>>]
    ELSE LET e == db["expenses"]
             joined == {i \in DOMAIN e : e[i].project_id \in DOMAIN db["projects"]}
             nameOf(i) == db["projects"][e[i].project_id].ProjectName
             names == {nameOf(i) : i \in joined} IN
         [status |-> 200,
          body |-> [n \in names |->
                      [name |-> n,
                       total |-> SqlSum(e, {i \in joined : nameOf(i) = n})]]]

----------------------------------------------------------------------------
(* SQL variant: one action per route *)

Emails == {"a@x", "b@x"}
Passwords == {"pw", "other"}
CategoryNames == {"Food"}
SubcategoryNames == {"Fruit"}
ProjectNames == {"Site", "App"}
(* the search parameter as its letters: none, one in "Food", one in "App" *)
Searches == {<<>>, <<"o">>, <<"p">>}

SIds == 1..MaxIds

(* rows created so far in the tables other than users *)
SCreated ==
    autoInc["categories"] + autoInc["subcategories"] + autoInc["projects"]
    + autoInc["expenses"] + autoInc["incomes"]

(* category_id / project_id a client sends: none, or one picked from the list *)
SRefs(t) == {Null} \cup DOMAIN db[t]

STxBodies ==
    {TxBody(a, m, c, p) : a \in Amounts, m \in Months,
                          c \in SRefs("categories"), p \in SRefs("projects")}

SqlReads(op, r) ==
    Served(op, "valid", r.status) /\ UNCHANGED <<variant, edgeVars, sqlVars>>

SqlStores(r) ==
    /\ db' = r.db /\ autoInc' = r.autoInc /\ issued' = r.issued
    /\ UNCHANGED <<variant, edgeVars>>

SqlApplies(op, r) == SqlStores(r) /\ Served(op, "valid", r.status)

SqlPublic(op, r) == SqlStores(r) /\ Served(op, "", r.status)

Register ==
    /\ variant = "sql" /\ autoInc["users"] < MaxUsers
    /\ \E email \in Emails, role \in {""} \cup Roles :
         SqlPublic("POST /api/auth/register", SqlRegister("ann", email, "pw", role))

(* a registration the bound on users leaves no room for is still answered  *)
(* when the e-mail is taken                                                *)
RegisterTaken ==
    /\ variant = "sql" /\ autoInc["users"] >= MaxUsers
    /\ \E email \in Emails, role \in {""} \cup Roles :
         /\ \E i \in DOMAIN db["users"] : db["users"][i].email = email
         /\ SqlPublic("POST /api/auth/register", SqlRegister("ann", email, "pw", role))

Login ==
    /\ variant = "sql"
    /\ \E email \in Emails, password \in Passwords :
         SqlPublic("POST /api/auth/login", SqlLogin(email, password))

SGetUsers ==
    variant = "sql" /\ \E tok \in issued : SqlReads("GET /api/users", SqlGetUsers(tok))

PutProfile ==
    /\ variant = "sql"
    /\ \E tok \in issued, name \in {"", "ann"}, email \in {""} \cup Emails :
         SqlApplies("PUT /api/users/profile", SqlPutProfile(tok, name, email))

SPostCategory ==
    /\ variant = "sql" /\ SCreated < MaxIds
    /\ \E tok \in issued, name \in CategoryNames, t \in Kinds :
         SqlApplies("POST /api/categories", SqlPostCategory(tok, name, t))

SPutCategory ==
    /\ variant = "sql"
    /\ \E tok \in issued, id \in SIds, name \in CategoryNames, t \in Kinds :
         SqlApplies("PUT /api/categories/:id", SqlPutCategory(tok, id, name, t))

SDeleteCategory ==
    /\ variant = "sql"
    /\ \E tok \in issued, id \in SIds :
         SqlApplies("DELETE /api/categories/:id", SqlDeleteCategory(tok, id))

SGetSubcategories ==
    variant = "sql" /\ \E tok \in issued :
        SqlReads("GET /api/subcategories", SqlGetSubcategories(tok))

SPostSubcategory ==
    /\ variant = "sql" /\ SCreated < MaxIds
    /\ \E tok \in issued, name \in SubcategoryNames, c \in SRefs("categories") :
         SqlApplies("POST /api/subcategories", SqlPostSubcategory(tok, name, c))

SPutSubcategory ==
    /\ variant = "sql"
    /\ \E tok \in issued, id \in SIds, name \in SubcategoryNames,
          c \in SRefs("categories") :
         SqlApplies("PUT /api/subcategories/:id", SqlPutSubcategory(tok, id, name, c))

SDeleteSubcategory ==
    /\ variant = "sql"
    /\ \E tok \in issued, id \in SIds :
         SqlApplies("DELETE /api/subcategories/:id", SqlDeleteSubcategory(tok, id))

SPostProject ==
    /\ variant = "sql" /\ SCreated < MaxIds
    /\ \E tok \in issued, name \in ProjectNames :
         SqlApplies("POST /api/projects", SqlPostProject(tok, name, Null))

SPutProject ==
    /\ variant = "sql"
    /\ \E tok \in issued, id \in SIds, name \in ProjectNames :
         SqlApplies("PUT /api/projects/:id", SqlPutProject(tok, id, name, 0))

SDeleteProject ==
    /\ variant = "sql"
    /\ \E tok \in issued, id \in SIds :
         SqlApplies("DELETE /api/projects/:id", SqlDeleteProject(tok, id))

SGetProjects ==
    /\ variant = "sql"
    /\ \E tok \in issued, page \in {1, 2}, limit \in {1, 10}, search \in Searches :
         \E order \in SqlProjectOrders(tok, search) :
            SqlReads("GET /api/projects", SqlGetProjects(tok, page, limit, search, order))

SGetExpenses ==
    /\ variant = "sql"
    /\ \E tok \in issued, page \in {1, 2}, limit \in {1, 10}, search \in Searches :
         \E order \in SqlExpenseOrders(search) :
            SqlReads("GET /api/expenses", SqlGetExpenses(tok, page, limit, search, order))

SPostExpense ==
    /\ variant = "sql" /\ SCreated < MaxIds
    /\ \E tok \in issued, b \in STxBodies, strict \in BOOLEAN :
         SqlApplies("POST /api/expenses", SqlPostExpense(tok, b, strict))

SPutExpense ==
    /\ variant = "sql"
    /\ \E tok \in issued, id \in SIds, b \in STxBodies, strict \in BOOLEAN :
         SqlApplies("PUT /api/expenses/:id", SqlPutExpense(tok, id, b, strict))

SDeleteExpense ==
    /\ variant = "sql"
    /\ \E tok \in issued, id \in SIds :
         SqlApplies("DELETE /api/expenses/:id", SqlDeleteExpense(tok, id))

SGetIncomes ==
    /\ variant = "sql"
    /\ \E tok \in issued, page \in {1, 2}, limit \in {1, 10}, order \in SqlIncomeOrders :
         SqlReads("GET /api/incomes", SqlGetIncomes(tok, page, limit, order))

SPostIncome ==
    /\ variant = "sql" /\ SCreated < MaxIds
    /\ \E tok \in issued, b \in STxBodies :
         SqlApplies("POST /api/incomes", SqlPostIncome(tok, b))

SPutIncome ==
    /\ variant = "sql"
    /\ \E tok \in issued, id \in SIds, b \in STxBodies :
         SqlApplies("PUT /api/incomes/:id", SqlPutIncome(tok, id, b))

SDeleteIncome ==
    /\ variant = "sql"
    /\ \E tok \in issued, id \in SIds :
         SqlApplies("DELETE /api/incomes/:id", SqlDeleteIncome(tok, id))

SGetDashboardStats ==
    variant = "sql" /\ \E tok \in issued :
        SqlReads("GET /api/dashboard-stats", SqlDashboardStats(tok))

SGetCategoryBreakdown ==
    /\ variant = "sql"
    /\ \E tok \in issued, t \in {""} \cup Kinds :
         SqlReads("GET /api/category-breakdown", SqlCategoryBreakdown(tok, t))

SGetMonthlyTrends ==
    variant = "sql" /\ \E tok \in issued :
        SqlReads("GET /api/monthly-trends", SqlMonthlyTrends(tok))

SGetProjectBreakdown ==
    variant = "sql" /\ \E tok \in issued :
        SqlReads("GET /api/project-breakdown", SqlProjectBreakdown(tok))

(* The routes behind authenticateToken, each with the parameters of one   *)
(* request: the middleware answers before the handler reads them.          *)
SqlRoutes ==
    {"GET /api/users", "PUT /api/users/profile",
     "POST /api/categories", "PUT /api/categories/:id", "DELETE /api/categories/:id",
     "GET /api/subcategories", "POST /api/subcategories",
     "PUT /api/subcategories/:id", "DELETE /api/subcategories/:id",
     "GET /api/projects",
     "POST /api/projects", "PUT /api/projects/:id", "DELETE /api/projects/:id",
     "GET /api/expenses", "POST /api/expenses", "PUT /api/expenses/:id",
     "DELETE /api/expenses/:id",
     "GET /api/incomes", "POST /api/incomes", "PUT /api/incomes/:id",
     "DELETE /api/incomes/:id",
     "GET /api/dashboard-stats", "GET /api/category-breakdown",
     "GET /api/monthly-trends", "GET /api/project-breakdown"}

SqlRead(r) == SqlAnswer(r.status)

SqlRoute(route, tok) ==
    LET body == TxBody(Num(1, 0), 0, Null, Null) IN
    CASE route = "GET /api/users" -> SqlRead(SqlGetUsers(tok))
      [] route = "PUT /api/users/profile" -> SqlPutProfile(tok, "ann", "a@x")
      [] route = "POST /api/categories" -> SqlPostCategory(tok, "Food", "expense")
      [] route = "PUT /api/categories/:id" -> SqlPutCategory(tok, 1, "Food", "income")
      [] route = "DELETE /api/categories/:id" -> SqlDeleteCategory(tok, 1)
      [] route = "GET /api/subcategories" -> SqlRead(SqlGetSubcategories(tok))
      [] route = "POST /api/subcategories" -> SqlPostSubcategory(tok, "Fruit", 1)
      [] route = "PUT /api/subcategories/:id" -> SqlPutSubcategory(tok, 1, "Fruit", 1)
      [] route = "DELETE /api/subcategories/:id" -> SqlDeleteSubcategory(tok, 1)
      [] route = "POST /api/projects" -> SqlPostProject(tok, "Site", 0)
      [] route = "PUT /api/projects/:id" -> SqlPutProject(tok, 1, "App", 0)
      [] route = "DELETE /api/projects/:id" -> SqlDeleteProject(tok, 1)
      [] route = "GET /api/projects" ->
            SqlRead(SqlGetProjects(tok, 1, 10, <<>>, <<>>))
      [] route = "GET /api/expenses" -> SqlRead(SqlGetExpenses(tok, 1, 10, <<>>, <<>>))
      [] route = "POST /api/expenses" -> SqlPostExpense(tok, body, TRUE)
      [] route = "PUT /api/expenses/:id" -> SqlPutExpense(tok, 1, body, TRUE)
      [] route = "DELETE /api/expenses/:id" -> SqlDeleteExpense(tok, 1)
      [] route = "GET /api/incomes" -> SqlRead(SqlGetIncomes(tok, 1, 10, <<>>))
      [] route = "POST /api/incomes" -> SqlPostIncome(tok, body)
      [] route = "PUT /api/incomes/:id" -> SqlPutIncome(tok, 1, body)
      [] route = "DELETE /api/incomes/:id" -> SqlDeleteIncome(tok, 1)
      [] route = "GET /api/dashboard-stats" -> SqlRead(SqlDashboardStats(tok))
      [] route = "GET /api/category-breakdown" -> SqlRead(SqlCategoryBreakdown(tok, ""))
      [] route = "GET /api/monthly-trends" -> SqlRead(SqlMonthlyTrends(tok))
      [] route = "GET /api/project-breakdown" -> SqlRead(SqlProjectBreakdown(tok))

(* a request with no token, or with one jwt.verify rejects *)
SUnauthorized ==
    /\ variant = "sql"
    /\ \E tok \in {NoJwt, BadJwt}, route \in SqlRoutes :
         LET r == SqlRoute(route, tok) IN
         /\ SqlStores(r)
         /\ Served("authenticateToken", IF tok = NoJwt THEN "none" ELSE "bad", r.status)

SqlNext ==
    \/ Register \/ RegisterTaken \/ Login \/ SUnauthorized \/ SGetUsers \/ PutProfile
    \/ SPostCategory \/ SPutCategory \/ SDeleteCategory
    \/ SGetSubcategories \/ SPostSubcategory \/ SPutSubcategory \/ SDeleteSubcategory
    \/ SGetProjects \/ SPostProject \/ SPutProject \/ SDeleteProject
    \/ SGetExpenses \/ SPostExpense \/ SPutExpense \/ SDeleteExpense
    \/ SGetIncomes \/ SPostIncome \/ SPutIncome \/ SDeleteIncome
    \/ SGetDashboardStats \/ SGetCategoryBreakdown \/ SGetMonthlyTrends
    \/ SGetProjectBreakdown

----------------------------------------------------------------------------
(* A deployment runs one backend.  The edge store starts empty; the SQL    *)
(* tables start as CREATE TABLE leaves them.                               *)

Init ==
    /\ variant \in {"edge", "sql"}
    /\ kv = <<>>
    /\ eAuth = 0
    /\ eNextId = 0
    /\ db = [t \in Tables |-> <<>>]
    /\ autoInc = [t \in Tables |-> 0]
    /\ issued = {}
    /\ resp = [op |-> "", token |-> "", status |-> 0]
    /\ proc = <<>>

Next == EdgeNext \/ SqlNext

Spec == Init /\ [][Next]_vars

InitEdge == Init /\ variant = "edge"

SpecEdge == InitEdge /\ [][EdgeNext]_vars

InitSql == Init /\ variant = "sql"

SpecSql == InitSql /\ [][SqlNext]_vars

----------------------------------------------------------------------------
(* Properties of the edge variant's expense and income routes *)

(* the caller's stored profile has the admin role *)
EdgeAdmin(u) == <<"user", u>> \in DOMAIN kv /\ kv[<<"user", u>>].role = "admin"

(* the rows under a prefix whose stored userId is u *)
EdgeOwn(prefix, u) == {k \in DOMAIN kv : k[1] = prefix /\ kv[k].userId = u}

EdgeAll(prefix) == {k \in DOMAIN kv : k[1] = prefix}

(* what a list route owes caller u: every row for an admin, else u's own *)
EdgeOwed(prefix, u) == IF EdgeAdmin(u) THEN EdgeAll(prefix) ELSE EdgeOwn(prefix, u)

(* C1: in the edge variant GET /expenses and GET /incomes answer a caller   *)
(* whose stored role is not admin with exactly the rows whose stored userId *)
(* is the caller's id, and an admin caller with every row.                  *)
C1_EdgeListsOwnRows ==
    variant = "edge" =>
        \A u \in EValid :
            /\ EdgeGetExpenses(u).status = 200
            /\ EdgeGetExpenses(u).body = [k \in EdgeOwed("expense", u) |-> kv[k]]
            /\ EdgeGetIncomes(u).status = 200
            /\ EdgeGetIncomes(u).body = [k \in EdgeOwed("income", u) |-> kv[k]]

(* a list was served while the store holds expenses of two users, one of    *)
(* them not an admin, and an admin                                          *)
C1_Witness ==
    /\ resp = [op |-> "GET /expenses", token |-> "valid", status |-> 200]
    /\ \E u, w \in EValid :
         /\ u # w /\ ~EdgeAdmin(u) /\ EdgeAdmin(w)
         /\ EdgeOwn("expense", u) # {} /\ EdgeOwn("expense", w) # {}
         /\ DOMAIN EdgeGetExpenses(u).body # DOMAIN EdgeGetExpenses(w).body

(* same store without the target row, resp. with it replaced *)
EdgeWithout(key) == [k \in (DOMAIN kv) \ {key} |-> kv[k]]

EdgeMerged(key, updates) ==
    [k \in DOMAIN kv |->
        IF k # key THEN kv[k]
        ELSE [f \in (DOMAIN kv[k]) \cup (DOMAIN updates) |->
                IF f \in DOMAIN updates THEN updates[f] ELSE kv[k][f]]]

(* PUT and DELETE of one record by caller u, for the expense or income routes *)
EdgePutTx(prefix, u, id, updates) ==
    IF prefix = "expense" THEN EdgePutExpense(u, id, updates)
    ELSE EdgePutIncome(u, id, updates)

EdgeDeleteTx(prefix, u, id) ==
    IF prefix = "expense" THEN EdgeDeleteExpense(u, id) ELSE EdgeDeleteIncome(u, id)

(* C3: in the edge variant PUT and DELETE on /expenses/:id and /incomes/:id *)
(* by a caller who is neither admin nor the record's stored owner answer    *)
(* 403 and leave the store as it was; by the owner or an admin the change   *)
(* is applied.                                                              *)
C3_EdgeOwnershipEnforced ==
    variant = "edge" =>
        \A prefix \in {"expense", "income"}, u \in EValid, id \in EIds :
            <<prefix, id>> \in DOMAIN kv =>
                LET key == <<prefix, id>>
                    del == EdgeDeleteTx(prefix, u, id) IN
                IF ~EdgeAdmin(u) /\ kv[key].userId # u
                THEN /\ del.status = 403 /\ del.kv = kv
                     /\ \A updates \in ETxUpdates :
                          /\ EdgePutTx(prefix, u, id, updates).status = 403
                          /\ EdgePutTx(prefix, u, id, updates).kv = kv
                ELSE /\ del.status = 200 /\ del.kv = EdgeWithout(key)
                     /\ \A updates \in ETxUpdates :
                          /\ EdgePutTx(prefix, u, id, updates).status = 200
                          /\ EdgePutTx(prefix, u, id, updates).kv
                               = EdgeMerged(key, updates)

(* a non-owner's update was refused with the record still another user's    *)
C3_Witness ==
    /\ resp = [op |-> "PUT /expenses/:id", token |-> "valid", status |-> 403]
    /\ \E u \in EValid, id \in EIds :
         /\ <<"expense", id>> \in DOMAIN kv
         /\ ~EdgeAdmin(u) /\ kv[<<"expense", id>>].userId # u

----------------------------------------------------------------------------
(* Properties of the SQL variant's expense and income routes *)

(* the ids of the rows a list answer carries *)
Listed(r) == {r.body[n].id : n \in DOMAIN r.body}

SqlOwn(t, tok) == {i \in DOMAIN db[t] : db[t][i].user_id = tok.id}

(* what a list route owes the holder of tok *)
SqlOwed(t, tok) == IF tok.role = "admin" THEN DOMAIN db[t] ELSE SqlOwn(t, tok)

(* C2: in the SQL variant GET /api/expenses and GET /api/incomes answer a   *)
(* non-admin caller only with rows whose user_id is the caller's id, and an *)
(* admin caller with all rows (first page, default limit of 10).            *)
C2_SqlListsOwnRows ==
    variant = "sql" =>
        \A tok \in issued :
            /\ \A order \in SqlExpenseOrders(<<>>) :
                  /\ SqlGetExpenses(tok, 1, 10, <<>>, order).status = 200
                  /\ Listed(SqlGetExpenses(tok, 1, 10, <<>>, order))
                        = SqlOwed("expenses", tok)
            /\ \A order \in SqlIncomeOrders :
                  /\ SqlGetIncomes(tok, 1, 10, order).status = 200
                  /\ Listed(SqlGetIncomes(tok, 1, 10, order)) = SqlOwed("incomes", tok)

SqlPutTx(t, tok, id, body) ==
    IF t = "expenses" THEN SqlPutExpense(tok, id, body, TRUE) ELSE SqlPutIncome(tok, id, body)

SqlDeleteTx(t, tok, id) ==
    IF t = "expenses" THEN SqlDeleteExpense(tok, id) ELSE SqlDeleteIncome(tok, id)

(* C4: in the SQL variant PUT and DELETE on /api/expenses/:id and           *)
(* /api/incomes/:id by a non-admin caller on a row whose user_id is another *)
(* user's answer 403 and leave the row as it was.                           *)
C4_SqlOwnershipEnforced ==
    variant = "sql" =>
        \A t \in {"expenses", "incomes"}, tok \in issued :
            \A id \in DOMAIN db[t] :
                (tok.role # "admin" /\ db[t][id].user_id # tok.id) =>
                    /\ SqlDeleteTx(t, tok, id).status = 403
                    /\ SqlDeleteTx(t, tok, id).db = db
                    /\ \A body \in STxBodies :
                         /\ SqlPutTx(t, tok, id, body).status = 403
                         /\ SqlPutTx(t, tok, id, body).db = db

----------------------------------------------------------------------------
(* Properties of the project routes *)

(* C5: in both variants PUT and DELETE on /projects/:id by a caller who is  *)
(* neither admin nor the project's creator answer 403 and leave the project *)
(* as it was; an admin or the creator succeeds.                             *)
C5_ProjectOwnershipEnforced ==
    /\ variant = "edge" =>
         \A u \in EValid, id \in EIds :
            <<"project", id>> \in DOMAIN kv =>
                LET key == <<"project", id>>
                    del == EdgeDeleteProject(u, id) IN
                IF ~EdgeAdmin(u) /\ kv[key].createdBy # u
                THEN /\ del.status = 403 /\ del.kv = kv
                     /\ \A updates \in EProjectUpdates :
                          /\ EdgePutProject(u, id, updates).status = 403
                          /\ EdgePutProject(u, id, updates).kv = kv
                ELSE /\ del.status = 200 /\ del.kv = EdgeWithout(key)
                     /\ \A updates \in EProjectUpdates :
                          /\ EdgePutProject(u, id, updates).status = 200
                          /\ EdgePutProject(u, id, updates).kv
                               = EdgeMerged(key, updates)
    /\ variant = "sql" =>
         \A tok \in issued :
            \A id \in DOMAIN db["projects"] :
                LET del == SqlDeleteProject(tok, id) IN
                IF tok.role # "admin" /\ db["projects"][id].UserID # tok.id
                THEN /\ del.status = 403 /\ del.db = db
                     /\ \A name \in ProjectNames :
                          /\ SqlPutProject(tok, id, name, 0).status = 403
                          /\ SqlPutProject(tok, id, name, 0).db = db
                ELSE /\ del.status = 200 /\ id \notin DOMAIN del.db["projects"]
                     /\ \A name \in ProjectNames :
                          /\ SqlPutProject(tok, id, name, 0).status = 200
                          /\ SqlPutProject(tok, id, name, 0).db["projects"][id].ProjectName
                               = name

----------------------------------------------------------------------------
(* Properties of the analytics routes *)

(* the four analytics answers caller u gets from the edge variant *)
EdgeAnalytics(u) ==
    <<EdgeDashboard(u), EdgeCategoryBreakdown(u, "expense"),
      EdgeCategoryBreakdown(u, "income"), EdgeMonthlyTrends(u, <<>>),
      EdgeProjectBreakdown(u)>>

(* everything the edge analytics may read on behalf of a non-admin u: the   *)
(* records that are no expense or income, and u's own expenses and incomes  *)
EdgeViewOf(u) ==
    [k \in {j \in DOMAIN kv : j[1] \notin {"expense", "income"}}
           \cup EdgeOwn("expense", u) \cup EdgeOwn("income", u) |-> kv[k]]

(* the four analytics answers the holder of tok gets from the SQL variant *)
SqlAnalytics(tok) ==
    <<SqlDashboardStats(tok), SqlCategoryBreakdown(tok, "expense"),
      SqlCategoryBreakdown(tok, "income"), SqlMonthlyTrends(tok),
      SqlProjectBreakdown(tok)>>

SqlViewOf(tok) ==
    <<db["users"], db["categories"], db["subcategories"], db["projects"],
      [i \in SqlOwn("expenses", tok) |-> db["expenses"][i]],
      [i \in SqlOwn("incomes", tok) |-> db["incomes"][i]]>>

(* a step that adds, changes or removes only other users' expense and       *)
(* income rows leaves a non-admin caller's analytics answers as they were   *)
OthersRowsDoNotCount ==
    /\ variant = "edge" =>
         \A u \in EValid :
            (~EdgeAdmin(u) /\ EdgeViewOf(u)' = EdgeViewOf(u))
                => EdgeAnalytics(u)' = EdgeAnalytics(u)
    /\ variant = "sql" =>
         \A tok \in issued :
            (tok.role # "admin" /\ SqlViewOf(tok)' = SqlViewOf(tok))
                => SqlAnalytics(tok)' = SqlAnalytics(tok)

(* an admin's dashboard counts and sums every expense and income row *)
AdminCountsAll ==
    /\ variant = "edge" =>
         \A u \in EValid :
            EdgeAdmin(u) =>
                /\ EdgeDashboard(u).body.expenseCount = Cardinality(EdgeAll("expense"))
                /\ EdgeDashboard(u).body.incomeCount = Cardinality(EdgeAll("income"))
                /\ EdgeDashboard(u).body.totalExpenses = EdgeTotal(EdgeAll("expense"))
                /\ EdgeDashboard(u).body.totalIncomes = EdgeTotal(EdgeAll("income"))
    /\ variant = "sql" =>
         \A tok \in issued :
            tok.role = "admin" =>
                /\ SqlDashboardStats(tok).body.expenseCount
                     = Cardinality(DOMAIN db["expenses"])
                /\ SqlDashboardStats(tok).body.incomeCount
                     = Cardinality(DOMAIN db["incomes"])

(* C6: in both variants each of the four analytics endpoints answers a      *)
(* non-admin caller from the rows that caller owns alone: adding, changing  *)
(* or deleting other users' rows never changes the answer.  An admin's      *)
(* answer aggregates all rows.                                              *)
C6_AnalyticsFromOwnRows == []AdminCountsAll /\ [][OthersRowsDoNotCount]_vars

----------------------------------------------------------------------------
(* Properties of the authentication middleware *)

(* tokens the edge variant's Auth does not accept, the absent one aside *)
EdgeBadTokens == {BadToken} \cup (UserIds \ EValid)

(* tokens jwt.verify rejects: not signed by this server, or expired *)
SqlBadTokens == {BadJwt} \cup ({Jwt(i, r) : i \in UserIds, r \in Roles} \ issued)

SqlUntouched(r) == r.db = db /\ r.autoInc = autoInc /\ r.issued = issued

(* every route behind the middleware turns away a request without a valid   *)
(* token, the store as it was: the edge variant with 401 whatever the       *)
(* reason, the SQL variant with 401 for no token and 403 for a bad one      *)
RejectedUnserved ==
    /\ variant = "edge" =>
         /\ \A route \in EdgeRoutes, tok \in {NoToken} \cup EdgeBadTokens :
              EdgeRoute(route, tok).status = 401 /\ EdgeRoute(route, tok).kv = kv
         /\ \A u \in EValid : requireAuth(u) = 0
    /\ variant = "sql" =>
         /\ \A route \in SqlRoutes :
              /\ SqlRoute(route, NoJwt).status = 401
              /\ SqlUntouched(SqlRoute(route, NoJwt))
              /\ \A tok \in SqlBadTokens :
                   /\ SqlRoute(route, tok).status = 403
                   /\ SqlUntouched(SqlRoute(route, tok))
         /\ \A tok \in issued : authenticateToken(tok) = 0

(* a request served without a valid token changes no data and is answered   *)
(* as above                                                                 *)
RejectedStep ==
    resp'.token \in {"none", "bad"} =>
        /\ UNCHANGED <<kv, eAuth, eNextId, db, autoInc, issued>>
        /\ resp'.status = IF resp'.token = "bad" /\ variant = "sql" THEN 403 ELSE 401

----------------------------------------------------------------------------
(* Properties of login, the user routes and e-mail uniqueness *)

SqlKnown(email) == \E i \in DOMAIN db["users"] : db["users"][i].email = email

(* C8: the SQL variant's login answers an unknown e-mail and a wrong        *)
(* password for a known e-mail with the same status and the same message.   *)
C8_LoginFailuresAlike ==
    variant = "sql" =>
        \A unknown \in Emails, known \in Emails, p \in Passwords, q \in Passwords :
            (~SqlKnown(unknown) /\ SqlKnown(known) /\ SqlLogin(known, q).status # 200)
                => /\ SqlLogin(unknown, p).status = SqlLogin(known, q).status
                   /\ SqlLogin(unknown, p).error = SqlLogin(known, q).error

(* GET /users of both variants and the edge variant's PUT /users/:id serve  *)
(* an admin and answer anyone else with 403, the records as they were.  The *)
(* edge variant reads the role from the stored profile, the SQL variant     *)
(* from the token.                                                          *)
UsersAdminOnly ==
    /\ variant = "edge" =>
         \A u \in EValid :
            IF EdgeAdmin(u)
            THEN /\ EdgeGetUsers(u).status = 200
                 /\ EdgeGetUsers(u).body = [k \in EdgeAll("user") |-> kv[k]]
                 /\ \A id \in UserIds, updates \in EUserUpdates :
                      <<"user", id>> \in DOMAIN kv =>
                          /\ EdgePutUser(u, id, updates).status = 200
                          /\ EdgePutUser(u, id, updates).kv
                               = EdgeMerged(<<"user", id>>, updates)
            ELSE /\ EdgeGetUsers(u).status = 403
                 /\ EdgeGetUsers(u).body = <<>>
                 /\ \A id \in UserIds, updates \in EUserUpdates :
                      /\ EdgePutUser(u, id, updates).status = 403
                      /\ EdgePutUser(u, id, updates).kv = kv
    /\ variant = "sql" =>
         \A tok \in issued :
            IF tok.role = "admin"
            THEN /\ SqlGetUsers(tok).status = 200
                 /\ DOMAIN SqlGetUsers(tok).body = DOMAIN db["users"]
            ELSE /\ SqlGetUsers(tok).status = 403
                 /\ SqlGetUsers(tok).body = <<>>

(* a stored user record changes only through an admin's PUT /users/:id      *)
(* (edge) or through PUT /api/users/profile (SQL), and the role never       *)
(* changes in the SQL variant                                               *)
UserRecordStep ==
    /\ \A id \in UserIds :
         (<<"user", id>> \in DOMAIN kv /\ kvGet(<<"user", id>>)' # kvGet(<<"user", id>>))
            => /\ resp' = [op |-> "PUT /users/:id", token |-> "valid", status |-> 200]
               /\ \E u \in EValid : EdgeAdmin(u)
    /\ \A id \in DOMAIN db["users"] :
         db'["users"][id] # db["users"][id]
            => /\ resp' = [op |-> "PUT /api/users/profile", token |-> "valid",
                           status |-> 200]
               /\ db'["users"][id].role = db["users"][id].role

(* C9: GET /users in both variants and PUT /users/:id in the edge variant   *)
(* answer 403 to a caller who is not admin and leave the user records as    *)
(* they were; only an admin obtains the user list or changes another user's *)
(* record, its role included.                                               *)
C9_UsersAdminOnly == []UsersAdminOnly /\ [][UserRecordStep]_vars

(* a non-admin's PUT /users/:id was refused *)
C9_Witness ==
    /\ resp = [op |-> "PUT /users/:id", token |-> "valid", status |-> 403]
    /\ \E u, w \in EValid : ~EdgeAdmin(u) /\ w # u /\ <<"user", w>> \in DOMAIN kv

(* C10: POST /api/auth/register with a registered e-mail and PUT            *)
(* /api/users/profile with another user's e-mail both answer 400 and leave  *)
(* the users table as it was; no two users share an e-mail.                 *)
C10_DuplicateEmailRejected ==
    variant = "sql" =>
        /\ \A email \in Emails, role \in {""} \cup Roles :
              SqlKnown(email) =>
                  /\ SqlRegister("ann", email, "pw", role).status = 400
                  /\ SqlRegister("ann", email, "pw", role).db = db
        /\ \A tok \in issued, email \in Emails :
              (\E i \in DOMAIN db["users"] : i # tok.id /\ db["users"][i].email = email)
                  => /\ SqlPutProfile(tok, "ann", email).status = 400
                     /\ SqlPutProfile(tok, "ann", email).db = db
        /\ \A i, j \in DOMAIN db["users"] :
              i # j => db["users"][i].email # db["users"][j].email

----------------------------------------------------------------------------
(* The edge ledger over more than a year: sign-ups, expenses and incomes    *)
(* dated from next month back to twelve months ago, and the monthly trends  *)
(* of 1, 3, 12 and 13 months and of parameters that are no count.           *)

TrendMonths == {-1, 0, 1, 2, 11, 12}

TrendQueries ==
    {<<>>, <<"1">>, <<"3">>, <<"1", "2">>, <<"1", "3">>,
     <<"0">>, <<"x">>, <<"2", ".", "5">>}

PostExpenseDated ==
    /\ variant = "edge" /\ eNextId < MaxIds
    /\ \E tok \in EValid, a \in Amounts, m \in TrendMonths :
         EdgeCreates("POST /expenses", EdgePostExpense(tok, TxBody(a, m, Null, Null)))

PostIncomeDated ==
    /\ variant = "edge" /\ eNextId < MaxIds
    /\ \E tok \in EValid, a \in Amounts, m \in TrendMonths :
         EdgeCreates("POST /incomes", EdgePostIncome(tok, TxBody(a, m, Null, Null)))

GetMonthlyTrendsOf ==
    /\ variant = "edge"
    /\ \E tok \in EValid, q \in TrendQueries :
         EdgeReads("GET /analytics/monthly-trends", EdgeMonthlyTrends(tok, q))

EdgeTrendsNext == Signup \/ PostExpenseDated \/ PostIncomeDated \/ GetMonthlyTrendsOf

SpecEdgeTrends == InitEdge /\ [][EdgeTrendsNext]_vars

RECURSIVE ToDigits(_)
(* the decimal digits of n >= 0, as a client writes them into the query *)
ToDigits(n) ==
    LET last == <<"0", "1", "2", "3", "4", "5", "6", "7", "8", "9">>[(n % 10) + 1] IN
    IF n < 10 THEN <<last>> ELSE ToDigits(n \div 10) \o <<last>>

(* the rows under prefix that caller u may see and that are dated `back`    *)
(* months before the current month                                          *)
EdgeDated(prefix, u, back) == {k \in EdgeOwed(prefix, u) : kv[k].month = back}

(* the sum of the amounts of the rows under keys *)
EdgeAmounts(keys) == SumOver(keys, [k \in keys |-> kv[k].amount])

(* C11: the edge monthly trends of N >= 1 months (12 when the parameter is  *)
(* omitted) are exactly N buckets, one per calendar month from N-1 months   *)
(* ago to the current month, oldest first; a bucket's expenses and incomes  *)
(* are the sums of the amounts of the caller-visible rows dated in its      *)
(* month (zero without any) and its balance is incomes - expenses.          *)
C11_EdgeTrendBuckets ==
    variant = "edge" =>
        \A u \in EValid, N \in 1..13 :
            \A q \in {ToDigits(N)} \cup (IF N = 12 THEN {<<>>} ELSE {}) :
                LET r == EdgeMonthlyTrends(u, q) IN
                /\ r.status = 200
                /\ DOMAIN r.body = 1..N
                /\ \A n \in 1..N :
                      LET back == N - n
                          expenses == EdgeAmounts(EdgeDated("expense", u, back))
                          incomes == EdgeAmounts(EdgeDated("income", u, back)) IN
                      /\ r.body[n].month = back
                      /\ r.body[n].expenses = expenses
                      /\ r.body[n].incomes = incomes
                      /\ r.body[n].balance = Minus(incomes, expenses)

(* trends served to a user who does not own every row, over a ledger with   *)
(* a row dated next month and a row in the oldest of the twelve months      *)
C11_Witness ==
    /\ variant = "edge"
    /\ resp.op = "GET /analytics/monthly-trends" /\ resp.status = 200
    /\ \E k \in EdgeAll("expense") : kv[k].month = 11
    /\ \E k \in EdgeAll("income") : kv[k].month = -1
    /\ \E u \in EValid : ~EdgeAdmin(u) /\ EdgeOwn("expense", u) # EdgeAll("expense")

----------------------------------------------------------------------------
(* Properties of the dashboard *)

(* the sum of the amounts of the rows `ids` of a table *)
SqlAmounts(table, ids) == SumOver(ids, [i \in ids |-> table[i].amount])

(* the rows of a table dated in the current month *)
SqlThisMonth(table) == {i \in DOMAIN table : table[i].month = 0}

(* C12: the dashboard's balance is totalIncomes - totalExpenses and its     *)
(* monthlyBalance is the incomes of the current month minus its expenses,   *)
(* where the totals are the sums of the amounts of the rows counted in      *)
(* expenseCount and incomeCount; without rows every figure is 0.            *)
C12_DashboardArithmetic ==
    /\ variant = "edge" =>
         \A u \in EValid :
            LET b == EdgeDashboard(u).body
                expenses == EdgeOwed("expense", u)
                incomes == EdgeOwed("income", u) IN
            /\ EdgeDashboard(u).status = 200
            /\ b.expenseCount = Cardinality(expenses)
            /\ b.incomeCount = Cardinality(incomes)
            /\ b.totalExpenses = EdgeAmounts(expenses)
            /\ b.totalIncomes = EdgeAmounts(incomes)
            /\ b.balance = Minus(b.totalIncomes, b.totalExpenses)
            /\ b.monthlyBalance = Minus(EdgeAmounts(EdgeDated("income", u, 0)),
                                        EdgeAmounts(EdgeDated("expense", u, 0)))
            /\ (expenses = {} /\ incomes = {}) =>
                    /\ b.totalExpenses = Zero /\ b.totalIncomes = Zero
                    /\ b.balance = Zero /\ b.monthlyBalance = Zero
    /\ variant = "sql" =>
         \A tok \in issued :
            LET b == SqlDashboardStats(tok).body
                e == db["expenses"]
                i == db["incomes"] IN
            /\ SqlDashboardStats(tok).status = 200
            /\ b.expenseCount = Cardinality(DOMAIN e)
            /\ b.incomeCount = Cardinality(DOMAIN i)
            /\ b.totalExpenses = SqlAmounts(e, DOMAIN e)
            /\ b.totalIncomes = SqlAmounts(i, DOMAIN i)
            /\ b.balance = Minus(b.totalIncomes, b.totalExpenses)
            /\ b.monthlyBalance = Minus(SqlAmounts(i, SqlThisMonth(i)),
                                        SqlAmounts(e, SqlThisMonth(e)))
            /\ (DOMAIN e = {} /\ DOMAIN i = {}) =>
                    /\ b.totalExpenses = Zero /\ b.totalIncomes = Zero
                    /\ b.balance = Zero /\ b.monthlyBalance = Zero

(* the dashboard served over an expense of the current month and an income  *)
(* of the month before, whose balance and monthly balance differ            *)
C12_Witness ==
    /\ variant = "edge"
    /\ resp.op = "GET /analytics/dashboard" /\ resp.status = 200
    /\ \E u \in EValid :
         /\ EdgeDated("expense", u, 0) # {} /\ EdgeDated("income", u, 1) # {}
         /\ EdgeDashboard(u).body.balance # EdgeDashboard(u).body.monthlyBalance

----------------------------------------------------------------------------
(* Properties of the category and subcategory routes *)

(* C13: in the SQL variant deleting a category does not delete the          *)
(* subcategories that reference it: every subcategory GET /api/subcategories *)
(* listed before the DELETE is listed after it, with a categoryId that is   *)
(* null or, the DELETE having been rejected, still names a category.        *)
C13_SubcategorySurvives ==
    [][(variant = "sql" /\ resp'.op = "DELETE /api/categories/:id") =>
          \A tok \in issued :
             \A i \in DOMAIN SqlGetSubcategories(tok).body :
                /\ i \in DOMAIN SqlGetSubcategories(tok)'.body
                /\ \/ SqlGetSubcategories(tok)'.body[i].categoryId = Null
                   \/ SqlGetSubcategories(tok)'.body[i].categoryId
                        \in DOMAIN db'["categories"]]_vars

----------------------------------------------------------------------------
(* Properties of the breakdowns *)

(* the fields of an entry of the project breakdown *)
ProjectEntryFields ==
    {"totalExpenses", "totalIncomes", "balance", "expenseCount", "incomeCount"}

(* C14: the project breakdown has exactly one entry for every existing      *)
(* project, those without expenses and incomes included; an entry reports   *)
(* the sum and the count of the caller-visible expenses and incomes of the  *)
(* project and balance = totalIncomes - totalExpenses.                      *)
C14_ProjectBreakdownComplete ==
    /\ variant = "edge" =>
         \A u \in EValid :
            LET b == EdgeProjectBreakdown(u).body
                of(prefix, p) == {k \in EdgeOwed(prefix, u) : kv[k].projectId = p} IN
            /\ DOMAIN b = EdgeAll("project")
            /\ \A p \in EdgeAll("project") :
                  /\ b[p].projectId = p[2]
                  /\ b[p].totalExpenses = EdgeAmounts(of("expense", p[2]))
                  /\ b[p].totalIncomes = EdgeAmounts(of("income", p[2]))
                  /\ b[p].expenseCount = Cardinality(of("expense", p[2]))
                  /\ b[p].incomeCount = Cardinality(of("income", p[2]))
                  /\ b[p].balance = Minus(b[p].totalIncomes, b[p].totalExpenses)
    /\ variant = "sql" =>
         \A tok \in issued :
            LET b == SqlProjectBreakdown(tok).body
                of(t, p) == {i \in SqlOwed(t, tok) : db[t][i].project_id = p} IN
            /\ Cardinality(DOMAIN b) = Cardinality(DOMAIN db["projects"])
            /\ \A p \in DOMAIN db["projects"] :
                  \E n \in DOMAIN b :
                     /\ b[n].name = db["projects"][p].ProjectName
                     /\ ProjectEntryFields \subseteq DOMAIN b[n]
                     /\ Number(b[n].totalExpenses)
                          = SqlAmounts(db["expenses"], of("expenses", p))
                     /\ Number(b[n].totalIncomes)
                          = SqlAmounts(db["incomes"], of("incomes", p))
                     /\ b[n].expenseCount = Cardinality(of("expenses", p))
                     /\ b[n].incomeCount = Cardinality(of("incomes", p))
                     /\ Number(b[n].balance)
                          = Minus(Number(b[n].totalIncomes), Number(b[n].totalExpenses))

----------------------------------------------------------------------------
(* Amounts through both backends: sign-ups, expenses created with amounts   *)
(* from a cent to past the range of the amount column, sent as numbers and  *)
(* as strings, and the expense lists.                                       *)

SentNumbers ==
    {Num(0, 10), Num(42, 500), Num(1, 5), Num(99999999, 990), Num(100000000, 0)}

SentAmounts == SentNumbers \cup {Str(n) : n \in SentNumbers}

PostExpenseOfAmount ==
    /\ variant = "edge" /\ eNextId < MaxIds
    /\ \E tok \in EValid, a \in SentAmounts :
         EdgeCreates("POST /expenses", EdgePostExpense(tok, TxBody(a, 0, Null, Null)))

SPostExpenseOfAmount ==
    /\ variant = "sql" /\ SCreated < MaxIds
    /\ \E tok \in issued, a \in SentAmounts, strict \in BOOLEAN :
         SqlApplies("POST /api/expenses",
                    SqlPostExpense(tok, TxBody(a, 0, Null, Null), strict))

AmountsNext ==
    \/ Signup \/ PostExpenseOfAmount \/ GetExpenses
    \/ Register \/ SPostExpenseOfAmount \/ SGetExpenses

SpecAmounts == Init /\ [][AmountsNext]_vars

(* the numbers with at most two decimals among those sent *)
TwoDecimals == {n \in SentNumbers : n.milli % 10 = 0}

(* those of them a DECIMAL(10, 2) column holds *)
InRange == {n \in TwoDecimals : ~Positive(Minus(n, DecimalMax))}

(* a request that creates an expense with amount a is answered 200 *)
CreateSucceeds(numbers) ==
    \A n \in numbers : \A a \in {n, Str(n)} :
        LET body == TxBody(a, 0, Null, Null) IN
        /\ variant = "edge" => \A tok \in EValid : EdgePostExpense(tok, body).kv # kv
        /\ variant = "sql" =>
              \A tok \in issued, strict \in BOOLEAN :
                 SqlPostExpense(tok, body, strict).status = 200

(* a step that creates an expense with amount a leaves an expense that the  *)
(* creator's list returns with the number a as its amount                   *)
RoundTrip(numbers) ==
    \A n \in numbers : \A a \in {n, Str(n)} :
        LET body == TxBody(a, 0, Null, Null) IN
        /\ variant = "edge" =>
              \A tok \in EValid :
                 (eNextId' = eNextId + 1 /\ kv' = EdgePostExpense(tok, body).kv)
                    => EdgeGetExpenses(tok)'.body[<<"expense", eNextId'>>].amount = n
        /\ variant = "sql" =>
              \A tok \in issued, strict \in BOOLEAN :
                 (db' # db /\ db' = SqlPostExpense(tok, body, strict).db)
                    => \A order \in SqlExpenseOrders(<<>>)' :
                        \E k \in DOMAIN SqlGetExpenses(tok, 1, 10, <<>>, order)'.body :
                          /\ SqlGetExpenses(tok, 1, 10, <<>>, order)'.body[k].id
                                = autoInc'["expenses"]
                          /\ SqlGetExpenses(tok, 1, 10, <<>>, order)'.body[k].amount = n

(* C15 as stated: for every amount a with at most two decimals, creating an *)
(* expense with amount a and reading it back through the expense list       *)
(* returns it with an amount that is the number a, in both variants.        *)
C15_AsStated == [][RoundTrip(TwoDecimals)]_vars

(* C15, for the amounts up to 99999999.99: creating an expense with an      *)
(* amount a of at most two decimals succeeds and the expense list returns   *)
(* it with an amount that is the number a, not a string and not rounded,    *)
(* in both variants.                                                        *)
C15_AmountRoundTrip == []CreateSucceeds(InRange) /\ [][RoundTrip(InRange)]_vars

(* the SQL expense list returning the amounts 42.5 and 99999999.99 of two   *)
(* expenses created with them                                               *)
C15_Witness ==
    /\ variant = "sql" /\ resp.op = "GET /api/expenses" /\ resp.status = 200
    /\ \E tok \in issued : \E order \in SqlExpenseOrders(<<>>) :
         {SqlGetExpenses(tok, 1, 10, <<>>, order).body[k].amount :
              k \in DOMAIN SqlGetExpenses(tok, 1, 10, <<>>, order).body}
           = {Num(42, 500), DecimalMax}

----------------------------------------------------------------------------
(* Properties of the stored expenses and incomes *)

(* the keys of the stored expenses and incomes *)
EdgeTxKeys == EdgeAll("expense") \cup EdgeAll("income")

(* POST /expenses and POST /incomes store the caller as userId and the key's *)
(* suffix as id, also when the body names a userId and an id                *)
CreatedOwned ==
    variant = "edge" =>
        \A tok \in EValid, b \in ETxBodies, u \in UserIds :
            LET body == Spread(b, [userId |-> u, id |-> 0])
                id == eNextId + 1 IN
            /\ EdgePostExpense(tok, body).kv[<<"expense", id>>].userId = tok
            /\ EdgePostExpense(tok, body).kv[<<"expense", id>>].id = id
            /\ EdgePostIncome(tok, body).kv[<<"income", id>>].userId = tok
            /\ EdgePostIncome(tok, body).kv[<<"income", id>>].id = id

IdIsKey == variant = "edge" => \A k \in EdgeTxKeys : kv[k].id = k[2]

(* no step changes the userId of a stored expense or income *)
OwnerKept ==
    variant = "edge" =>
        \A k \in EdgeTxKeys : k \in DOMAIN kv' => kv'[k].userId = kv[k].userId

(* C16: in the edge variant every stored expense and income has the userId  *)
(* of the caller who created it, whatever the body said, and the suffix of  *)
(* its key as id, also after any number of PUT requests with any bodies.    *)
C16_OwnerFixedAtCreation == [](CreatedOwned /\ IdIsKey) /\ [][OwnerKept]_vars

----------------------------------------------------------------------------
(* Properties of requests that name a record that does not exist *)

(* the answers of the edge variant to the PUT and the DELETE of caller tok  *)
(* for the id of a record that is not stored, one per kind of record        *)
EdgeMissingAnswers(tok, id) ==
    (IF <<"category", id>> \in DOMAIN kv THEN {}
     ELSE {EdgePutCategory(tok, id, u) : u \in ECategoryUpdates}
          \cup {EdgeDeleteCategory(tok, id)})
    \cup (IF <<"subcategory", id>> \in DOMAIN kv THEN {}
          ELSE {EdgePutSubcategory(tok, id, [categoryId |-> Null]),
                EdgeDeleteSubcategory(tok, id)})
    \cup (IF <<"project", id>> \in DOMAIN kv THEN {}
          ELSE {EdgePutProject(tok, id, u) : u \in EProjectUpdates}
               \cup {EdgeDeleteProject(tok, id)})
    \cup (IF <<"expense", id>> \in DOMAIN kv THEN {}
          ELSE {EdgePutExpense(tok, id, u) : u \in ETxUpdates}
               \cup {EdgeDeleteExpense(tok, id)})
    \cup (IF <<"income", id>> \in DOMAIN kv THEN {}
          ELSE {EdgePutIncome(tok, id, u) : u \in ETxUpdates}
               \cup {EdgeDeleteIncome(tok, id)})

(* the same for the SQL variant *)
SqlMissingAnswers(tok, id) ==
    (IF id \in DOMAIN db["categories"] THEN {}
     ELSE {SqlPutCategory(tok, id, "Food", "expense"), SqlDeleteCategory(tok, id)})
    \cup (IF id \in DOMAIN db["subcategories"] THEN {}
          ELSE {SqlPutSubcategory(tok, id, "Fruit", Null),
                SqlDeleteSubcategory(tok, id)})
    \cup (IF id \in DOMAIN db["projects"] THEN {}
          ELSE {SqlPutProject(tok, id, "Site", 0), SqlDeleteProject(tok, id)})
    \cup (IF id \in DOMAIN db["expenses"] THEN {}
          ELSE {SqlPutExpense(tok, id, b, TRUE) : b \in STxBodies}
               \cup {SqlDeleteExpense(tok, id)})
    \cup (IF id \in DOMAIN db["incomes"] THEN {}
          ELSE {SqlPutIncome(tok, id, b) : b \in STxBodies}
               \cup {SqlDeleteIncome(tok, id)})

(* C17: in both variants a PUT or DELETE for the id of a category,          *)
(* subcategory, project, expense or income that does not exist is answered  *)
(* 404 whatever the caller's role, never 200 or 403, and changes no stored  *)
(* data.                                                                    *)
C17_MissingIs404 ==
    /\ variant = "edge" =>
         \A tok \in EValid, id \in 1..(MaxIds + 1) :
            \A r \in EdgeMissingAnswers(tok, id) : r.status = 404 /\ r.kv = kv
    /\ variant = "sql" =>
         \A tok \in issued, id \in 1..(MaxIds + 1) :
            \A r \in SqlMissingAnswers(tok, id) : r.status = 404 /\ r.db = db

----------------------------------------------------------------------------
(* The SQL ledger over more than a year: registrations, expenses dated from *)
(* seven months ahead to seven months ago, and the monthly trends.          *)

SqlTrendMonths == {-7, -1, 0, 5, 6, 7}

SPostExpenseDated ==
    /\ variant = "sql" /\ SCreated < MaxIds
    /\ \E tok \in issued, a \in Amounts, m \in SqlTrendMonths :
         SqlApplies("POST /api/expenses",
                    SqlPostExpense(tok, TxBody(a, m, Null, Null), TRUE))

SqlTrendsNext == Register \/ SPostExpenseDated \/ SGetMonthlyTrends

SpecSqlTrends == InitSql /\ [][SqlTrendsNext]_vars

(* the rows of a table dated `back` months before the current month *)
SqlDated(table, back) == {i \in DOMAIN table : table[i].month = back}

(* C18: the SQL monthly trends are exactly 6 buckets, one per calendar      *)
(* month from five months ago to the current month, oldest first; a         *)
(* bucket's expenses and incomes are the sums of the amounts of the rows    *)
(* dated in its month of its year (0 without any), whatever else the tables *)
(* hold: rows dated in the future or more than six months ago included.     *)
C18_SqlTrendBuckets ==
    variant = "sql" =>
        \A tok \in issued :
            LET r == SqlMonthlyTrends(tok) IN
            /\ r.status = 200
            /\ DOMAIN r.body = 1..6
            /\ \A n \in 1..6 :
                  /\ r.body[n].month = 6 - n
                  /\ r.body[n].expenses
                       = SqlAmounts(db["expenses"], SqlDated(db["expenses"], 6 - n))
                  /\ r.body[n].incomes
                       = SqlAmounts(db["incomes"], SqlDated(db["incomes"], 6 - n))

----------------------------------------------------------------------------
(* Properties of the category breakdown *)

(* C19: the category breakdown of a kind has exactly one entry per          *)
(* categoryId of an existing category that at least one caller-visible      *)
(* transaction of the kind references; the entry's total is the sum of the  *)
(* amounts of those transactions, so the totals add up to the sum of the    *)
(* visible transactions of the kind that reference an existing category.    *)
C19_CategoryBreakdownComplete ==
    /\ variant = "edge" =>
         \A u \in EValid, kind \in Kinds :
            LET b == EdgeCategoryBreakdown(u, kind).body
                visible == EdgeOwed(kind, u)
                existing == {k[2] : k \in EdgeAll("category")}
                referenced == {kv[k].categoryId : k \in visible} \cap existing
                of(c) == {k \in visible : kv[k].categoryId = c} IN
            /\ {b[e].categoryId : e \in DOMAIN b} = referenced
            /\ Cardinality(DOMAIN b) = Cardinality(referenced)
            /\ \A e \in DOMAIN b : b[e].total = EdgeAmounts(of(b[e].categoryId))
    /\ variant = "sql" =>
         \A tok \in issued, kind \in Kinds :
            LET b == SqlCategoryBreakdown(tok, kind).body
                t == IF kind = "expense" THEN "expenses" ELSE "incomes"
                visible == SqlOwed(t, tok)
                referenced == {db[t][i].category_id : i \in visible}
                                 \cap DOMAIN db["categories"]
                of(c) == {i \in visible : db[t][i].category_id = c} IN
            /\ Cardinality(DOMAIN b) = Cardinality(referenced)
            /\ \A c \in referenced :
                  \E e \in DOMAIN b :
                     /\ b[e].categoryName = db["categories"][c].name
                     /\ Number(b[e].total) = SqlAmounts(db[t], of(c))


----------------------------------------------------------------------------
(* Properties of the SQL variant's paged lists *)

(* SQL variant, the lists: projects created with a start date in this     *)
(* month or the month before, expenses, and the paged reads of both        *)
SPostProjectDated ==
    /\ variant = "sql" /\ SCreated < MaxIds
    /\ \E tok \in issued, name \in ProjectNames, start \in Months :
         SqlApplies("POST /api/projects", SqlPostProject(tok, name, start))

SqlPagesNext ==
    \/ Register \/ SPostCategory \/ SPostProjectDated \/ SPostExpense
    \/ SGetProjects \/ SGetExpenses

SpecSqlPages == InitSql /\ [][SqlPagesNext]_vars

(* the ids and the total that GET /api/projects answers for each page and  *)
(* each order the page query may see                                        *)
ProjectPages(tok, limit, search) ==
    [page \in 1..(Cardinality(SqlProjectsMatching(tok, search)) + 1),
     order \in SqlProjectOrders(tok, search) |->
        LET r == SqlGetProjects(tok, page, limit, search, order) IN
        [ids |-> [n \in DOMAIN r.body |-> r.body[n].ProjectID], total |-> r.total]]

(* the same for GET /api/expenses *)
ExpensePages(tok, limit, search) ==
    [page \in 1..(Cardinality(SqlExpensesMatching(search)) + 1),
     order \in SqlExpenseOrders(search) |->
        LET r == SqlGetExpenses(tok, page, limit, search, order) IN
        [ids |-> [n \in DOMAIN r.body |-> r.body[n].id], total |-> r.total]]

(* every answer carries the size of the filtered set `rows` as its total;  *)
(* there is one sort order of `rows` of which every page is the positions  *)
(* (page-1)*limit+1 .. page*limit, whatever order the page query saw; and  *)
(* pages 1..ceil(total/limit), each asked for on its own, together carry   *)
(* every row of `rows` exactly once                                         *)
PagedAsClaimed(rows, orders, limit, answer) ==
    LET total == Cardinality(rows)
        last == (total + limit - 1) \div limit IN
    /\ \A page \in 1..(total + 1), order \in orders :
          answer[page, order].total = total
    /\ \E fixed \in orders :
          \A page \in 1..(total + 1), order \in orders :
             answer[page, order].ids = LimitOffset(fixed, limit, (page - 1) * limit)
    /\ \A seen \in [1..last -> orders] :
          \A i \in rows :
             Cardinality({pk \in (1..last) \X (1..limit) :
                             /\ pk[2] \in DOMAIN answer[pk[1], seen[pk[1]]].ids
                             /\ answer[pk[1], seen[pk[1]]].ids[pk[2]] = i}) = 1

(* C20: in the SQL variant, for page >= 1 and limit >= 1, GET /api/projects *)
(* and GET /api/expenses return the rows at positions (page-1)*limit+1 ..   *)
(* page*limit of the filtered set in the fixed sort order (projects: the    *)
(* owner restriction for non-admins plus search, by start date descending;  *)
(* expenses: search, by date descending), the total is the size of that     *)
(* filtered set whatever the page and limit, and pages 1..ceil(total/limit) *)
(* together contain every matching row exactly once.                        *)
C20_PagesPartition ==
    variant = "sql" =>
        \A tok \in issued, limit \in 1..2, search \in Searches :
            /\ PagedAsClaimed(SqlProjectsMatching(tok, search),
                              SqlProjectOrders(tok, search), limit,
                              ProjectPages(tok, limit, search))
            /\ PagedAsClaimed(SqlExpensesMatching(search),
                              SqlExpenseOrders(search), limit,
                              ExpensePages(tok, limit, search))

(* the same where no two rows of a list bear one date: the pages the claim *)
(* describes are the pages answered                                         *)
C20_DistinctDates ==
    (/\ variant = "sql"
     /\ \A i, j \in DOMAIN db["projects"] :
           i # j => db["projects"][i].ProjectStartDate # db["projects"][j].ProjectStartDate
     /\ \A i, j \in DOMAIN db["expenses"] :
           i # j => db["expenses"][i].month # db["expenses"][j].month)
    => C20_PagesPartition


----------------------------------------------------------------------------
(* The SQL variant on the seeded database *)

(* The rows the setup script inserts after CREATE TABLE, one of a kind: an *)
(* admin without a password, an expense and an income category, a          *)
(* subcategory, a project, an expense and an income.  The seeded expense   *)
(* and income name no user_id.                                              *)
SeedDb ==
    [users |-> <<[name |-> "Local User", email |-> "local@example.com",
                  password |-> <<>>, role |-> "admin"]>>,
     categories |-> <<[name |-> "Food", type |-> "expense"],
                      [name |-> "Salary", type |-> "income"]>>,
     subcategories |-> <<[name |-> "Fruit", category_id |-> 1]>>,
     projects |-> <<[ProjectName |-> "Site", ProjectStartDate |-> 0, UserID |-> 1]>>,
     expenses |-> <<[month |-> 0, amount |-> Num(50, 0), category_id |-> 1,
                     subcategory_id |-> Null, project_id |-> 1, user_id |-> Null]>>,
     incomes |-> <<[month |-> 0, amount |-> Num(5000, 0), category_id |-> 2,
                    project_id |-> 1, user_id |-> Null]>>]

InitSqlSeeded ==
    /\ variant = "sql"
    /\ kv = <<>>
    /\ eAuth = 0
    /\ eNextId = 0
    /\ db = SeedDb
    /\ autoInc = [t \in Tables |-> Len(SeedDb[t])]
    /\ issued = {}
    /\ resp = [op |-> "", token |-> "", status |-> 0]
    /\ proc = <<>>

(* the ids a request may name as a reference: none, a row, or no row *)
SeededRefs == 0..MaxIds

(* request bodies of the expense and income forms, with a subcategory *)
SeededBodies ==
    {TxBody(Num(1, 0), 0, c, p) @@ [subcategoryId |-> sc] :
        c \in SeededRefs, sc \in SeededRefs, p \in SeededRefs}

SPostExpenseSeeded ==
    /\ variant = "sql" /\ autoInc["expenses"] < MaxIds
    /\ \E tok \in issued, b \in SeededBodies :
         SqlApplies("POST /api/expenses", SqlPostExpense(tok, b, TRUE))

SPutExpenseSeeded ==
    /\ variant = "sql"
    /\ \E tok \in issued, id \in SIds, b \in SeededBodies :
         SqlApplies("PUT /api/expenses/:id", SqlPutExpense(tok, id, b, TRUE))

SPostIncomeSeeded ==
    /\ variant = "sql" /\ autoInc["incomes"] < MaxIds
    /\ \E tok \in issued, b \in SeededBodies :
         SqlApplies("POST /api/incomes", SqlPostIncome(tok, b))

SPostSubcategorySeeded ==
    /\ variant = "sql" /\ autoInc["subcategories"] < MaxIds
    /\ \E tok \in issued, categoryId \in SeededRefs :
         SqlApplies("POST /api/subcategories", SqlPostSubcategory(tok, "Fruit", categoryId))

SqlSeededNext ==
    \/ Register
    \/ SPostExpenseSeeded \/ SPutExpenseSeeded
    \/ SPostIncomeSeeded \/ SGetIncomes
    \/ SPostSubcategorySeeded
    \/ SDeleteCategory \/ SDeleteSubcategory \/ SDeleteProject

SpecSqlSeeded == InitSqlSeeded /\ [][SqlSeededNext]_vars

(* col of every row of table t is NULL or the id of a row of table to *)
References(t, col, to) ==
    \A i \in DOMAIN db[t] : db[t][i][col] = Null \/ db[t][i][col] \in DOMAIN db[to]

ReferencesHold ==
    /\ References("expenses", "category_id", "categories")
    /\ References("expenses", "subcategory_id", "subcategories")
    /\ References("expenses", "project_id", "projects")
    /\ References("incomes", "category_id", "categories")
    /\ References("incomes", "project_id", "projects")

(* a step that deletes rows of table `to` keeps every row of t and leaves  *)
(* NULL in col where the row referenced went                                *)
NulledBy(t, col, to) ==
    DOMAIN db'[to] # DOMAIN db[to] /\ DOMAIN db'[to] \subseteq DOMAIN db[to]
        => /\ DOMAIN db'[t] = DOMAIN db[t]
           /\ \A i \in DOMAIN db[t] :
                 db'[t][i][col] = IF db[t][i][col] \in DOMAIN db'[to]
                                  THEN db[t][i][col] ELSE Null

DeletesSetNull ==
    /\ NulledBy("expenses", "category_id", "categories")
    /\ NulledBy("expenses", "subcategory_id", "subcategories")
    /\ NulledBy("expenses", "project_id", "projects")
    /\ NulledBy("incomes", "category_id", "categories")
    /\ NulledBy("incomes", "project_id", "projects")

(* C21: in the SQL variant each expense's and income's category_id and      *)
(* project_id, and each expense's subcategory_id, is NULL or the id of an   *)
(* existing row in every reachable state; deleting a referenced category,   *)
(* subcategory or project sets those references to NULL and deletes no      *)
(* expense or income row.                                                   *)
C21_ReferentialIntegrity ==
    [](variant = "sql" => ReferencesHold) /\ [][variant = "sql" => DeletesSetNull]_vars

(* the seeded categories were deleted: the seeded expense and income are   *)
(* still there, without a category                                          *)
C21_Witness ==
    /\ variant = "sql" /\ resp.op = "DELETE /api/categories/:id" /\ resp.status = 200
    /\ db["categories"] = <<>> /\ db["subcategories"] = <<>>
    /\ 1 \in DOMAIN db["expenses"] /\ db["expenses"][1].category_id = Null
    /\ 1 \in DOMAIN db["incomes"] /\ db["incomes"][1].category_id = Null
    /\ db["incomes"][1].project_id # Null


----------------------------------------------------------------------------
(* Properties of the edge variant's category delete *)

(* the stored records, other than categories, that name a category no      *)
(* longer stored                                                            *)
EdgeDangling ==
    {k \in DOMAIN kv :
        /\ k[1] \in {"subcategory", "expense", "income"}
        /\ kv[k].categoryId # Null
        /\ <<"category", kv[k].categoryId>> \notin DOMAIN kv}

(* C22: in the edge variant DELETE /categories/:id removes only the key     *)
(* category:<id> and leaves every other record unchanged: the               *)
(* subcategories, expenses and incomes that referenced the category remain  *)
(* stored with their categoryId still equal to the deleted id.              *)
C22_EdgeDeleteCategoryOnly ==
    [][(variant = "edge" /\ resp'.op = "DELETE /categories/:id" /\ resp'.status = 200)
        => /\ DOMAIN kv' \subseteq DOMAIN kv
           /\ \A k \in DOMAIN kv \ DOMAIN kv' : k[1] = "category"
           /\ Cardinality(DOMAIN kv \ DOMAIN kv') <= 1
           /\ \A k \in DOMAIN kv' : kv'[k] = kv[k]
           /\ \A k \in DOMAIN kv :
                 k[1] \in {"subcategory", "expense", "income"}
                    => k \in DOMAIN kv' /\ kv'[k].categoryId = kv[k].categoryId]_vars

(* a category was deleted and a subcategory still names it *)
C22_Witness ==
    /\ variant = "edge" /\ resp.op = "DELETE /categories/:id" /\ resp.status = 200
    /\ \E k \in EdgeDangling : k[1] = "subcategory"


----------------------------------------------------------------------------
(* Properties of the SQL variant's incomes *)

(* the bodies whose categoryId, subcategoryId and projectId each name a    *)
(* stored row or none                                                       *)
ValidIncomeBodies ==
    {b \in SeededBodies :
        /\ FkOk("categories", b.categoryId)
        /\ FkOk("subcategories", b.subcategoryId)
        /\ FkOk("projects", b.projectId)}

(* POST /api/incomes with a valid body succeeds *)
IncomeCreated ==
    variant = "sql" =>
        \A tok \in issued, b \in ValidIncomeBodies : SqlPostIncome(tok, b).status = 200

(* the step of a successful POST /api/incomes: the list then carries the   *)
(* new row with the fields of the body                                      *)
IncomeListed ==
    variant = "sql" =>
        \A tok \in issued, b \in ValidIncomeBodies :
            (db' # db /\ db' = SqlPostIncome(tok, b).db)
               => \A order \in SqlIncomeOrders' :
                    \E k \in DOMAIN SqlGetIncomes(tok, 1, 10, order)'.body :
                       LET row == SqlGetIncomes(tok, 1, 10, order)'.body[k] IN
                       /\ row.id = autoInc'["incomes"]
                       /\ row.month = b.month
                       /\ row.amount = b.amount
                       /\ row.categoryId = b.categoryId
                       /\ row.subcategoryId = b.subcategoryId
                       /\ row.projectId = b.projectId

(* C23: in the SQL variant POST /api/incomes with a valid body (date,       *)
(* amount, remarks, categoryId, optional subcategoryId and projectId)       *)
(* succeeds against the shipped schema, and a subsequent GET /api/incomes   *)
(* returns a row with the same date, amount, categoryId, subcategoryId and  *)
(* projectId.                                                               *)
C23_IncomeRoundTrip == []IncomeCreated /\ [][IncomeListed]_vars


----------------------------------------------------------------------------
(* The admin script (create_admin.js) beside the SQL server *)

AdminEmail == "keval123@abc.com"

(* UPDATE users SET role = 'user' WHERE role = 'admin' *)
createAdminDemote ==
    [db EXCEPT !["users"] =
        [i \in DOMAIN db["users"] |->
            IF db["users"][i].role = "admin"
            THEN [db["users"][i] EXCEPT !.role = "user"] ELSE db["users"][i]]]

(* SELECT * FROM users WHERE email = ?; existing.length > 0 *)
createAdminSelect == \E i \in DOMAIN db["users"] : db["users"][i].email = AdminEmail

(* existing: what the SELECT found.  UPDATE users SET password, role, name *)
(* WHERE email = ?, or INSERT INTO users, which the UNIQUE key of email    *)
(* rejects when the e-mail has been taken since: the catch logs the error  *)
createAdminWrite(existing) ==
    IF existing
    THEN [error |-> FALSE, autoInc |-> autoInc,
          db |-> [db EXCEPT !["users"] =
                     [i \in DOMAIN db["users"] |->
                         IF db["users"][i].email = AdminEmail
                         THEN [db["users"][i] EXCEPT !.password = Hash("keval2310"),
                                                     !.role = "admin",
                                                     !.name = "Keval"]
                         ELSE db["users"][i]]]]
    ELSE IF createAdminSelect
    THEN [error |-> TRUE, autoInc |-> autoInc, db |-> db]
    ELSE LET ins == SqlInserted("users", [name |-> "Keval", email |-> AdminEmail,
                                           password |-> Hash("keval2310"),
                                           role |-> "admin"]) IN
         [error |-> FALSE, autoInc |-> ins.autoInc, db |-> ins.db]

(* the script's statements, each one statement of its own connection       *)
(* (autocommit, no transaction), run beside the server                      *)
ScriptIdle == [pc |-> "idle", existing |-> FALSE]

AdminDemote ==
    /\ variant = "sql" /\ proc.pc \in {"idle", "done", "failed"}
    /\ db' = createAdminDemote
    /\ proc' = [pc |-> "demoted", existing |-> FALSE]
    /\ UNCHANGED <<variant, edgeVars, autoInc, issued, resp>>

AdminSelect ==
    /\ variant = "sql" /\ proc.pc = "demoted"
    /\ proc' = [pc |-> "selected", existing |-> createAdminSelect]
    /\ UNCHANGED <<variant, edgeVars, sqlVars, resp>>

AdminWrite ==
    /\ variant = "sql" /\ proc.pc = "selected"
    /\ db' = createAdminWrite(proc.existing).db
    /\ autoInc' = createAdminWrite(proc.existing).autoInc
    /\ proc' = [pc |-> IF createAdminWrite(proc.existing).error THEN "failed" ELSE "done",
                existing |-> FALSE]
    /\ UNCHANGED <<variant, edgeVars, issued, resp>>

(* a registration while the script may be running, also with the script's  *)
(* e-mail                                                                   *)
RegisterBeside ==
    /\ variant = "sql" /\ Cardinality(issued) < MaxUsers
    /\ \E email \in {"a@x", AdminEmail}, role \in {""} \cup Roles :
         SqlPublic("POST /api/auth/register", SqlRegister("ann", email, "pw", role))

InitCreateAdmin ==
    /\ variant = "sql"
    /\ kv = <<>>
    /\ eAuth = 0
    /\ eNextId = 0
    /\ db = [t \in Tables |-> <<>>]
    /\ autoInc = [t \in Tables |-> 0]
    /\ issued = {}
    /\ resp = [op |-> "", token |-> "", status |-> 0]
    /\ proc = ScriptIdle

CreateAdminNext ==
    \/ AdminDemote \/ AdminSelect \/ AdminWrite
    \/ RegisterBeside \/ Login \/ SGetUsers \/ SGetProjects \/ SPostProject

SpecCreateAdmin == InitCreateAdmin /\ [][CreateAdminNext]_vars

SqlAdmins == {i \in DOMAIN db["users"] : db["users"][i].role = "admin"}

(* exactly one admin, the user of the script's e-mail; every other user    *)
(* has role 'user'                                                          *)
OneAdmin ==
    /\ Cardinality(SqlAdmins) = 1
    /\ \A i \in DOMAIN db["users"] :
          IF db["users"][i].email = AdminEmail
          THEN db["users"][i].role = "admin"
          ELSE db["users"][i].role = "user"

(* C24: whenever createAdmin() has run to completion without error,         *)
(* exactly one user has role 'admin', the user with the designated e-mail,  *)
(* whatever users and roles existed before the run; every other user has    *)
(* role 'user'.                                                             *)
C24_OneAdminAfterSeeding ==
    [][(proc.pc = "selected" /\ proc'.pc = "done") => OneAdmin']_vars


----------------------------------------------------------------------------
(* The client's AuthProvider (AuthContext.tsx) *)

(* A token is <<user id, n>>: the n-th token the server has signed, for    *)
(* that user.  proc holds the provider's state: user (Null or a user id),  *)
(* token, loading, localStorage's accessToken, the tokens of the           *)
(* getCurrentUser requests in flight, the number of tokens handed out, and *)
(* signedOut: signOut() has run and no signIn/signUp has succeeded since.  *)
NoSession == <<>>

(* useEffect(..., [token]) after a render in which token changed to `t`:   *)
(* initAuth calls api.getCurrentUser(token) when there is a token, and     *)
(* else sets loading to false                                               *)
initAuth(state, t) ==
    IF t # NoSession
    THEN [state EXCEPT !.inFlight = @ \cup {t}]
    ELSE [state EXCEPT !.loading = FALSE]

(* the effect runs when token is not what it was at the last render *)
Rendered(before, after) ==
    IF after.token # before.token THEN initAuth(after, after.token) ELSE after

(* signIn / signUp on a response with success, token and user *)
signedIn(state, u) ==
    LET t == <<u, state.sessions + 1>> IN
    Rendered(state, [state EXCEPT !.storage = t, !.token = t, !.user = u,
                                   !.sessions = @ + 1, !.signedOut = FALSE])

(* signOut: localStorage.removeItem, setToken(null), setUser(null) *)
signedOut(state) ==
    Rendered(state, [state EXCEPT !.storage = NoSession, !.token = NoSession,
                                   !.user = Null, !.signedOut = TRUE])

(* the getCurrentUser request made with token t resolves: setUser(user),   *)
(* or on an error removeItem, setToken(null), setUser(null); then          *)
(* setLoading(false)                                                        *)
initAuthResolved(state, t, ok) ==
    LET landed == [state EXCEPT !.inFlight = @ \ {t}, !.loading = FALSE] IN
    IF ok THEN [landed EXCEPT !.user = t[1]]
    ELSE Rendered(landed, [landed EXCEPT !.storage = NoSession,
                                          !.token = NoSession, !.user = Null])

ClientActs(state) ==
    /\ proc' = state
    /\ UNCHANGED <<variant, edgeVars, sqlVars, resp>>

(* PublicRoute shows the login and signup forms when loading is over and   *)
(* there is no user; ProtectedRoute shows the layout, with its sign-out    *)
(* button, when loading is over and there is one                            *)
signIn ==
    /\ ~proc.loading /\ proc.user = Null /\ proc.sessions < MaxSessions
    /\ \E u \in UserIds : ClientActs(signedIn(proc, u))

(* the user signed up is a new one, the last of UserIds *)
signUp ==
    /\ ~proc.loading /\ proc.user = Null /\ proc.sessions < MaxSessions
    /\ ClientActs(signedIn(proc, MaxUsers))

signOut ==
    /\ ~proc.loading /\ proc.user # Null
    /\ ClientActs(signedOut(proc))

(* the answer to a request in flight arrives: the user of the token, or an *)
(* error (the token has expired, the user is gone, the network failed)     *)
GetCurrentUserLands ==
    \E t \in proc.inFlight, ok \in BOOLEAN : ClientActs(initAuthResolved(proc, t, ok))

(* the provider mounts with what localStorage holds: nothing, or a token   *)
(* of an earlier visit                                                      *)
InitAuthProvider ==
    /\ variant = "sql"
    /\ kv = <<>>
    /\ eAuth = 0
    /\ eNextId = 0
    /\ db = [t \in Tables |-> <<>>]
    /\ autoInc = [t \in Tables |-> 0]
    /\ issued = {}
    /\ resp = [op |-> "", token |-> "", status |-> 0]
    /\ \E stored \in {NoSession, <<1, 0>>} :
          proc = initAuth([user |-> Null, token |-> stored, loading |-> TRUE,
                           storage |-> stored, inFlight |-> {}, sessions |-> 0,
                           signedOut |-> FALSE], stored)

AuthProviderNext == signIn \/ signUp \/ signOut \/ GetCurrentUserLands

SpecAuthProvider == InitAuthProvider /\ [][AuthProviderNext]_vars

(* C25: in every reachable state of AuthProvider, user != null implies      *)
(* token != null and localStorage's accessToken holds that token; once      *)
(* signOut() has run, user stays null until the next successful signIn or   *)
(* signUp, even when a getCurrentUser request started by the token effect   *)
(* before the sign-out resolves afterwards.                                 *)
C25_UserImpliesToken ==
    /\ proc.user # Null => proc.token # NoSession /\ proc.storage = proc.token
    /\ proc.signedOut => proc.user = Null


----------------------------------------------------------------------------
(* Properties of roles that change in the SQL variant *)

(* the tokens whose user the users table now gives the role 'user' *)
TokensOfPlainUsers ==
    {tok \in issued : /\ tok.id \in DOMAIN db["users"]
                      /\ db["users"][tok.id].role = "user"}

(* C26: in the SQL variant, once a user's role in the users table is        *)
(* 'user' (for example after createAdmin demoted a former admin), every     *)
(* request by that user to GET /api/users returns 403 and that user's       *)
(* project requests are restricted to projects they own, even when the      *)
(* request carries a token issued before the change.                        *)
C26_RoleChangeTakesEffect ==
    variant = "sql" =>
        \A tok \in TokensOfPlainUsers :
            /\ SqlGetUsers(tok).status = 403
            /\ \A search \in Searches : \A order \in SqlProjectOrders(tok, search) :
                  \A n \in DOMAIN SqlGetProjects(tok, 1, 10, search, order).body :
                     SqlGetProjects(tok, 1, 10, search, order).body[n].UserID = tok.id
            /\ \A id \in DOMAIN db["projects"] :
                  db["projects"][id].UserID # tok.id
                     => /\ SqlPutProject(tok, id, "App", 0).status = 403
                        /\ SqlDeleteProject(tok, id).status = 403


----------------------------------------------------------------------------
(* Edge variant: a PUT in flight beside other requests *)

(* PUT /expenses/:id and PUT /incomes/:id await the store three times:     *)
(* kv.get of the record, kv.get of the caller's profile, kv.set.  Another  *)
(* request may be served between two awaits; proc holds the request in     *)
(* flight with what it has read.                                            *)
NoPut == [pc |-> "idle"]

(* const existing = await kv.get(`expense:${id}`); if (!existing) 404 *)
PutTxReads ==
    /\ variant = "edge" /\ proc.pc = "idle"
    /\ \E prefix \in {"expense", "income"}, tok \in EValid, id \in EIds,
          updates \in {[amount |-> a] : a \in Amounts} :
         LET existing == kvGet(<<prefix, id>>) IN
         IF existing = Missing
         THEN /\ resp' = [op |-> "PUT /" \o prefix \o "s/:id", token |-> "valid",
                          status |-> 404]
              /\ UNCHANGED <<variant, edgeVars, sqlVars, proc>>
         ELSE /\ proc' = [pc |-> "read", prefix |-> prefix, tok |-> tok, id |-> id,
                          updates |-> updates, existing |-> existing]
              /\ UNCHANGED <<variant, edgeVars, sqlVars, resp>>

(* const userProfile = await kv.get(`user:${user.id}`); the ownership check *)
PutTxChecks ==
    /\ variant = "edge" /\ proc.pc = "read"
    /\ LET userProfile == kvGet(<<"user", proc.tok>>) IN
       IF RoleOf(userProfile) # "admin" /\ proc.existing.userId # proc.tok
       THEN /\ resp' = [op |-> "PUT /" \o proc.prefix \o "s/:id", token |-> "valid",
                        status |-> 403]
            /\ proc' = NoPut
            /\ UNCHANGED <<variant, edgeVars, sqlVars>>
       ELSE /\ proc' = [proc EXCEPT !.pc = "checked"]
            /\ UNCHANGED <<variant, edgeVars, sqlVars, resp>>

(* await kv.set(`expense:${id}`, { ...existing, ...updates, updatedAt }) *)
PutTxWrites ==
    /\ variant = "edge" /\ proc.pc = "checked"
    /\ kv' = kvSet(<<proc.prefix, proc.id>>, Spread(proc.existing, proc.updates))
    /\ resp' = [op |-> "PUT /" \o proc.prefix \o "s/:id", token |-> "valid",
                status |-> 200]
    /\ proc' = NoPut
    /\ UNCHANGED <<variant, eAuth, eNextId, sqlVars>>

InitEdgeRace ==
    /\ variant = "edge"
    /\ kv = <<>>
    /\ eAuth = 0
    /\ eNextId = 0
    /\ db = [t \in Tables |-> <<>>]
    /\ autoInc = [t \in Tables |-> 0]
    /\ issued = {}
    /\ resp = [op |-> "", token |-> "", status |-> 0]
    /\ proc = NoPut

EdgeRaceNext ==
    \/ Signup \/ PostExpense \/ PostIncome \/ DeleteExpense \/ DeleteIncome
    \/ PutTxReads \/ PutTxChecks \/ PutTxWrites

SpecEdgeRace == InitEdgeRace /\ [][EdgeRaceNext]_vars

(* the keys of expenses and incomes that ids handed out so far could have: *)
(* an id is handed out once, so such a key that is not stored either was   *)
(* deleted or never was stored                                              *)
EdgeTxKeysSoFar == {"expense", "income"} \X (1..eNextId)

(* C27: in the edge variant, once DELETE /expenses/:id (or /incomes/:id)    *)
(* has returned success, the record is absent from the store in every later *)
(* state, even when a PUT on the same id that read the record before the    *)
(* delete writes its result after it.                                       *)
C27_DeleteIsFinal ==
    [][variant = "edge" =>
          \A key \in EdgeTxKeysSoFar : key \notin DOMAIN kv => key \notin DOMAIN kv']_vars


----------------------------------------------------------------------------
(* SQL variant: two registrations in flight *)

(* POST /api/auth/register awaits the SELECT of the e-mail, bcrypt.hash    *)
(* and the INSERT; another request may be served between two awaits.       *)
(* proc holds two requests: pc ("idle", "checked": the SELECT found no     *)
(* row, "done"), the body's e-mail and role, whether the SELECT found no   *)
(* row, the status answered, and whether the answer carried a token.       *)
Requests == 1..2

NoRegistration ==
    [pc |-> "idle", email |-> "", role |-> "", passed |-> FALSE, status |-> 0,
     token |-> FALSE]

(* SELECT * FROM users WHERE email = ?; existing.length > 0 answers 400 *)
RegisterChecks ==
    /\ variant = "sql"
    /\ \E r \in Requests, email \in Emails, role \in {""} \cup Roles :
         /\ proc[r].pc = "idle"
         /\ IF \E i \in DOMAIN db["users"] : db["users"][i].email = email
            THEN /\ proc' = [proc EXCEPT ![r] =
                               [pc |-> "done", email |-> email, role |-> role,
                                passed |-> FALSE, status |-> 400, token |-> FALSE]]
                 /\ resp' = [op |-> "POST /api/auth/register", token |-> "", status |-> 400]
            ELSE /\ proc' = [proc EXCEPT ![r] =
                               [pc |-> "checked", email |-> email, role |-> role,
                                passed |-> TRUE, status |-> 0, token |-> FALSE]]
                 /\ UNCHANGED resp
         /\ UNCHANGED <<variant, edgeVars, sqlVars>>

(* INSERT INTO users ...: the UNIQUE key of email rejects a second row of  *)
(* one e-mail, and the catch answers 500 'Registration failed'; else the   *)
(* token is signed and the answer is 200                                    *)
RegisterInserts ==
    /\ variant = "sql"
    /\ \E r \in Requests :
         /\ proc[r].pc = "checked"
         /\ LET role == IF proc[r].role = "" THEN "user" ELSE proc[r].role
                ins == SqlInserted("users", [name |-> "ann", email |-> proc[r].email,
                                             password |-> Hash("pw"), role |-> role]) IN
            IF \E i \in DOMAIN db["users"] : db["users"][i].email = proc[r].email
            THEN /\ proc' = [proc EXCEPT ![r].pc = "done", ![r].status = 500]
                 /\ resp' = [op |-> "POST /api/auth/register", token |-> "", status |-> 500]
                 /\ UNCHANGED sqlVars
            ELSE /\ db' = ins.db /\ autoInc' = ins.autoInc
                 /\ issued' = issued \cup {Jwt(ins.autoInc["users"], role)}
                 /\ proc' = [proc EXCEPT ![r].pc = "done", ![r].status = 200,
                                         ![r].token = TRUE]
                 /\ resp' = [op |-> "POST /api/auth/register", token |-> "", status |-> 200]
         /\ UNCHANGED <<variant, edgeVars>>

InitRegisterRace ==
    /\ variant = "sql"
    /\ kv = <<>>
    /\ eAuth = 0
    /\ eNextId = 0
    /\ db = [t \in Tables |-> <<>>]
    /\ autoInc = [t \in Tables |-> 0]
    /\ issued = {}
    /\ resp = [op |-> "", token |-> "", status |-> 0]
    /\ proc = [r \in Requests |-> NoRegistration]

RegisterRaceNext == RegisterChecks \/ RegisterInserts \/ Login \/ SGetUsers

SpecRegisterRace == InitRegisterRace /\ [][RegisterRaceNext]_vars

(* both requests named one e-mail, both SELECTs found no row (so both ran  *)
(* before either INSERT: `passed`), and both have been answered             *)
RegistrationsRaced ==
    /\ \A r \in Requests : proc[r].pc = "done" /\ proc[r].passed
    /\ proc[1].email = proc[2].email

(* C28: when two POST /api/auth/register requests with the same new e-mail  *)
(* interleave (both run the existence check before either inserts), exactly *)
(* one user row with that e-mail exists afterwards, exactly one request     *)
(* receives a token, and the other is answered with the 400 'Email already  *)
(* exists' validation error.                                                *)
C28_ConcurrentRegistration ==
    (variant = "sql" /\ RegistrationsRaced)
       => /\ Cardinality({i \in DOMAIN db["users"] :
                             db["users"][i].email = proc[1].email}) = 1
          /\ \E r \in Requests :
                /\ proc[r].status = 200 /\ proc[r].token
                /\ \A q \in Requests \ {r} :
                      /\ ~proc[q].token
                      /\ proc[q].status = 400

(* the same without the status: one row, one token, and the other request  *)
(* answered with an error                                                   *)
RegistrationsRacedSafely ==
    (variant = "sql" /\ RegistrationsRaced)
       => /\ Cardinality({i \in DOMAIN db["users"] :
                             db["users"][i].email = proc[1].email}) = 1
          /\ Cardinality({r \in Requests : proc[r].token}) = 1
          /\ \E r \in Requests : proc[r].status = 500

----------------------------------------------------------------------------
(* The client's Projects page, beside the SQL variant's project routes.    *)
(* The Expenses and Incomes pages keep the same state and run the same     *)
(* effects and handlers over their own routes.                              *)

limit == 1          \* rows on a page: useState(10) in the client, scaled so
                    \* that MaxIds rows fill more than one page
MaxFlights == 2     \* requests of the page the network holds at a time

(* the session the page runs in: the token of user 1, a plain user *)
session == Jwt(1, "user")

(* what the page can be searched for *)
SearchTerms == {<<>>, <<"p">>}

NoTimer == [set |-> FALSE, page |-> 1, search |-> <<>>]

NoFlight == [pc |-> "free", page |-> 1, search |-> <<>>, projects |-> <<>>, total |-> 0]

(* const totalPages = Math.ceil(total / limit) *)
totalPages(state) == (state.total + limit - 1) \div limit

(* a slot of the network that holds no request, 0 if there is none *)
FreeSlot(state) ==
    IF \E f \in 1..MaxFlights : state.flights[f].pc = "free"
    THEN CHOOSE f \in 1..MaxFlights :
            /\ state.flights[f].pc = "free"
            /\ \A g \in 1..(f - 1) : state.flights[g].pc # "free"
    ELSE 0

(* fetchProjects() as far as its await, called by a render that saw `page` *)
(* and `search`: setLoading(true) and the request api.getProjects(token,   *)
(* { page, limit, search }) leaves                                          *)
fetchProjects(state, page, search) ==
    [state EXCEPT !.loading = TRUE,
                  !.flights[FreeSlot(state)] =
                      [pc |-> "sent", page |-> page, search |-> search,
                       projects |-> <<>>, total |-> 0]]

(* useEffect(..., [session, page]): a render with another page fetches *)
pageEffect(before, after) ==
    IF after.page # before.page THEN fetchProjects(after, after.page, after.searchTerm)
    ELSE after

(* useEffect(..., [searchTerm]): a render with another search term clears  *)
(* the timer and sets one whose callback is the fetchProjects of that      *)
(* render                                                                   *)
searchEffect(before, after) ==
    IF after.searchTerm # before.searchTerm
    THEN [after EXCEPT !.timer = [set |-> TRUE, page |-> after.page,
                                  search |-> after.searchTerm]]
    ELSE after

(* a render after the state went from `before` to `after` runs the effects *)
(* whose dependencies changed                                               *)
Renders(before, after) == searchEffect(before, pageEffect(before, after))

(* the table and the pagination controls are drawn *)
ListShown(state) == ~state.loading /\ state.projects # <<>>

(* the page is mounted: page 1, no search, loading; the first render ran   *)
(* both effects                                                             *)
Mounted ==
    [page |-> 1, searchTerm |-> <<>>, total |-> 0, projects |-> <<>>, loading |-> TRUE,
     timer |-> [set |-> TRUE, page |-> 1, search |-> <<>>],
     flights |-> [f \in 1..MaxFlights |->
                    IF f = 1 THEN [pc |-> "sent", page |-> 1, search |-> <<>>,
                                   projects |-> <<>>, total |-> 0]
                    ELSE NoFlight],
     shown |-> [page |-> 0, search |-> <<>>]]

(* the ChevronRight button: setPage(p => Math.min(totalPages, p + 1)),     *)
(* disabled when page >= totalPages || totalPages === 0                     *)
ClickNext ==
    /\ ListShown(proc) /\ FreeSlot(proc) # 0
    /\ ~(proc.page >= totalPages(proc) \/ totalPages(proc) = 0)
    /\ proc' = Renders(proc, [proc EXCEPT !.page =
                                IF totalPages(proc) < proc.page + 1 THEN totalPages(proc)
                                ELSE proc.page + 1])
    /\ UNCHANGED <<variant, edgeVars, sqlVars, resp>>

(* the ChevronLeft button: setPage(p => Math.max(1, p - 1)), disabled when *)
(* page === 1                                                               *)
ClickPrevious ==
    /\ ListShown(proc) /\ FreeSlot(proc) # 0
    /\ proc.page # 1
    /\ proc' = Renders(proc, [proc EXCEPT !.page =
                                IF proc.page - 1 < 1 THEN 1 ELSE proc.page - 1])
    /\ UNCHANGED <<variant, edgeVars, sqlVars, resp>>

(* the search box: onChange={(e) => { setSearchTerm(e.target.value);       *)
(* setPage(1); }}                                                           *)
TypeSearch ==
    /\ FreeSlot(proc) # 0
    /\ \E term \in SearchTerms \ {proc.searchTerm} :
         proc' = Renders(proc, [proc EXCEPT !.searchTerm = term, !.page = 1])
    /\ UNCHANGED <<variant, edgeVars, sqlVars, resp>>

(* 500 ms after the search term changed the timer runs its callback *)
DebounceFires ==
    /\ proc.timer.set /\ FreeSlot(proc) # 0
    /\ proc' = [fetchProjects(proc, proc.timer.page, proc.timer.search)
                   EXCEPT !.timer = NoTimer]
    /\ UNCHANGED <<variant, edgeVars, sqlVars, resp>>

(* the server answers a request of the page that is on its way *)
FetchServed ==
    /\ variant = "sql"
    /\ \E f \in 1..MaxFlights :
         /\ proc.flights[f].pc = "sent"
         /\ \E order \in SqlProjectOrders(session, proc.flights[f].search) :
              LET r == SqlGetProjects(session, proc.flights[f].page, limit,
                                      proc.flights[f].search, order) IN
              /\ proc' = [proc EXCEPT
                            !.flights[f].pc = "served",
                            !.flights[f].projects =
                                [n \in DOMAIN r.body |-> r.body[n].ProjectID],
                            !.flights[f].total = r.total]
              /\ resp' = [op |-> "GET /api/projects", token |-> "valid",
                          status |-> r.status]
    /\ UNCHANGED <<variant, edgeVars, sqlVars>>

(* the rest of fetchProjects() when its answer arrives:                    *)
(* setProjects(data.projects || []); setTotal(data.total || 0); finally    *)
(* setLoading(false)                                                        *)
FetchLands ==
    /\ \E f \in 1..MaxFlights :
         /\ proc.flights[f].pc = "served"
         /\ proc' = [proc EXCEPT
                       !.projects = proc.flights[f].projects,
                       !.total = proc.flights[f].total,
                       !.loading = FALSE,
                       !.shown = [page |-> proc.flights[f].page,
                                  search |-> proc.flights[f].search],
                       !.flights[f] = NoFlight]
    /\ UNCHANGED <<variant, edgeVars, sqlVars, resp>>

(* handleSubmit of the dialog for a new project: await api.createProject,  *)
(* then fetchProjects()                                                     *)
SubmitProject ==
    /\ variant = "sql" /\ FreeSlot(proc) # 0
    /\ autoInc["projects"] < MaxIds
    /\ \E name \in ProjectNames :
         LET r == SqlPostProject(session, name, 0) IN
         /\ SqlStores(r)
         /\ resp' = [op |-> "POST /api/projects", token |-> "valid", status |-> r.status]
         /\ proc' = fetchProjects(proc, proc.page, proc.searchTerm)

(* handleDelete of a row: await api.deleteProject, then fetchProjects();   *)
(* an answer that is an error is caught and nothing is fetched              *)
DeleteRow ==
    /\ variant = "sql" /\ ListShown(proc) /\ FreeSlot(proc) # 0
    /\ \E n \in DOMAIN proc.projects :
         LET r == SqlDeleteProject(session, proc.projects[n]) IN
         /\ SqlStores(r)
         /\ resp' = [op |-> "DELETE /api/projects/:id", token |-> "valid",
                     status |-> r.status]
         /\ proc' = IF r.status = 200
                    THEN fetchProjects(proc, proc.page, proc.searchTerm)
                    ELSE proc

InitProjectsPage ==
    /\ variant = "sql"
    /\ kv = <<>>
    /\ eAuth = 0
    /\ eNextId = 0
    /\ db = [t \in Tables |->
               IF t = "users"
               THEN <<[name |-> "ann", email |-> "a@x", password |-> Hash("pw"),
                       role |-> "user"]>>
               ELSE <<>>]
    /\ autoInc = [t \in Tables |-> IF t = "users" THEN 1 ELSE 0]
    /\ issued = {session}
    /\ resp = [op |-> "", token |-> "", status |-> 0]
    /\ proc = Mounted

ProjectsPageNext ==
    \/ ClickNext \/ ClickPrevious \/ TypeSearch \/ DebounceFires
    \/ FetchServed \/ FetchLands \/ SubmitProject \/ DeleteRow

SpecProjectsPage == InitProjectsPage /\ [][ProjectsPageNext]_vars

(* no fetch is in flight and none is due *)
PageQuiet ==
    /\ ~proc.timer.set
    /\ \A f \in 1..MaxFlights : proc.flights[f].pc = "free"

(* C29: on the Expenses, Incomes and Projects pages, whenever no fetch is  *)
(* in flight, 1 <= page <= max(1, ceil(total/limit)), after any sequence   *)
(* of next/previous clicks, searches, creates and deletes, including the   *)
(* delete of the only row shown on the last page.                           *)
C29_PageInRange ==
    PageQuiet =>
       /\ 1 <= proc.page
       /\ proc.page <= (IF totalPages(proc) < 1 THEN 1 ELSE totalPages(proc))

(* C30: on the Expenses and Projects pages, once every fetch in flight has *)
(* resolved, the rows and the total displayed are the ones the server      *)
(* returned for the current (page, searchTerm), whatever the order in      *)
(* which the answers of the page-change fetch and of the debounced search  *)
(* fetches arrive.                                                          *)
C30_ListIsCurrent ==
    PageQuiet => proc.shown = [page |-> proc.page, search |-> proc.searchTerm]

====
